---- MODULE Spec2Model ----
(***************************************************************************)
(* Model of the Alaska waitlist tracker: the in-memory rate limiter, the   *)
(* Express /api/trackWaitlist handler, the Next.js POST route with         *)
(* trackWaitlist (cache gateway) and the SQLite store they write to.       *)
(*                                                                         *)
(* Time is in milliseconds, as Date.now() returns it.  Handlers are async  *)
(* functions on one event loop: every action below is the code that runs   *)
(* between two awaits, so actions of different requests interleave exactly *)
(* where the code awaits.                                                  *)
(***************************************************************************)
EXTENDS Integers, Sequences, FiniteSets, TLC

VARIABLES
    clock,           \* Date.now()
    tzOffset,        \* local time minus UTC of the process, in ms
    lastScrapeTime,  \* RateLimiter.lastScrapeTime : Map<flightKey, number>
    limiterCalls,    \* history: last recordScrape / clearLimit call per key
    isDbAvailable,   \* Database.isDbAvailable
    database,        \* Database.db, Database.initPromise and the database file
    flights,         \* rows of table flights
    snapshots,       \* rows of table waitlist_snapshots
    nextFlightId,    \* AUTOINCREMENT sequence of flights
    nextSnapshotId,  \* AUTOINCREMENT sequence of waitlist_snapshots
    reqs,            \* the requests in flight, in order of arrival
    arrivals,        \* number of requests received so far
    lastResponse,    \* the request answered last, as it was answered
    fetchLog,        \* history: page fetches per flight key
    eliteStatus,     \* rows of table elite_status
    lastCall,        \* the function called last, its arguments and its result
    browserInstance,     \* browser-utils: let browserInstance (None: null)
    browserInitPromise,  \* browser-utils: let browserInitPromise (None: null)
    connectionRetries,   \* browser-utils: let connectionRetries
    browsers,        \* the browser processes launched so far
    inits,           \* the runs of initBrowser, in order of their start
    handlers,        \* per browser: its 'disconnected' handler and timer
    pages,           \* the pages opened so far
    fetches,         \* the callers of createPage: fetches of trackWaitlist
    sched,           \* the run of takeSnapshot
    chal             \* the run of the challenge handler of one request

vars == <<clock, tzOffset, database, lastScrapeTime, limiterCalls, isDbAvailable,
          flights, snapshots, nextFlightId, nextSnapshotId, reqs, arrivals,
          lastResponse, fetchLog, eliteStatus, lastCall, browserInstance,
          browserInitPromise, connectionRetries, browsers, inits, handlers,
          pages, fetches, sched, chal>>

sessionVars == <<browserInstance, browserInitPromise, connectionRetries, browsers,
                 inits, handlers, pages, fetches>>

reqVars == <<reqs, arrivals, lastResponse, fetchLog>>

storeVars == <<isDbAvailable, flights, snapshots, nextFlightId, nextSnapshotId>>

-----------------------------------------------------------------------------
(* Bounds of the model *)

ClockStartMs == 1000000000
TickMs == 300000
PollMs == 240000
MaxTicks == 3
MaxPolls == 2
MaxRequests == 2
MaxSegments == 2
MaxRows == 3
MaxHours == 100
MaxSaves == 3
MaxFetches == 2
MaxLaunches == 2
MaxInits == 2
MaxPages == 2

MaxSchedulerRuns == 2
MaxSpans == 2
MaxStarts == 3
ReadGapMs == 1

(* Inputs *)

FlightNumbers == {"100", "200"}
FlightDate == "2024-12-29"
UserNames == {"XYZ/K"}
TzOffsets == {0, 0 - 28800000}
NameLists == {<<"ABC/J", "XYZ/K">>}

None == 0 - 1

-----------------------------------------------------------------------------
(* Rate limiter *)

intervalMs == 600000

LastTime(map, flightKey) ==
    IF flightKey \in DOMAIN map /\ map[flightKey] # 0 THEN map[flightKey] ELSE 0

canScrape_strict(map, flightKey, now) ==
    (now - LastTime(map, flightKey)) > intervalMs

canScrape(map, flightKey, now) ==
    (now - LastTime(map, flightKey)) >= intervalMs

Max(a, b) == IF a >= b THEN a ELSE b

getTimeUntilNextScrape_elapsed(map, flightKey, now) ==
    Max(0, now - LastTime(map, flightKey))

getTimeUntilNextScrape(map, flightKey, now) ==
    LET timePassed == now - LastTime(map, flightKey)
    IN  Max(0, intervalMs - timePassed)

recordScrape(map, flightKey, now) ==
    [k \in DOMAIN map \cup {flightKey} |-> IF k = flightKey THEN now ELSE map[k]]

clearLimit(map, flightKey) ==
    [k \in DOMAIN map \ {flightKey} |-> map[k]]

FlightKey(flightNumber, flightDate) == <<flightNumber, flightDate>>

FlightKeys == {FlightKey(n, FlightDate) : n \in FlightNumbers}

-----------------------------------------------------------------------------
(* Requests *)

NewReq(gateway, flightNumber, userName, forceRefresh, now) ==
    [gateway |-> gateway, flightNumber |-> flightNumber, userName |-> userName,
     forceRefresh |-> forceRefresh,
     pc |-> "start", status |-> 0, waitTimeMs |-> None,
     consulted |-> FALSE,      \* the handler called rateLimiter.canScrape
     recentOk |-> FALSE,       \* on arrival, a fetch of the key had succeeded
                               \* less than intervalMs before
     pageOpen |-> FALSE,       \* the request holds an open page
     pagesCreated |-> 0,       \* pages createPage() returned to the request
     decision |-> "",          \* "cache" or "fetch" once trackWaitlist chose
     served |-> "",            \* "cache" or "fresh" once a result exists
     cacheAges |-> << >>,      \* at the cache decision: the age of the latest
                               \* snapshot of every segment (None: no snapshot)
     extracted |-> None,       \* number of segments parsed from the page
     challenge |-> FALSE,      \* needsVerification(page) returned true
     failedAttempts |-> 0,     \* press-and-hold attempts that did not pass
     caught |-> "",            \* message of the error the outer catch got
     rowsWritten |-> 0,        \* rows the request wrote to the store
     error |-> "", segments |-> << >>]

KeyOf(r) == FlightKey(r.flightNumber, FlightDate)

\* a caller of createPage before its call
NewFetch ==
    [pc |-> "idle",
     retryCount |-> 0,      \* createPage: let retryCount
     awaiting |-> None,     \* the run of initBrowser whose promise it awaits
     browser |-> None,      \* createPage: const browser
     attempt |-> None,      \* createPage: const page of the current attempt
     page |-> None,         \* trackWaitlist: let page
     navRetry |-> 0,        \* trackWaitlist: let retryCount
     replacing |-> FALSE,   \* inside createPage of the navigation retry
     started |-> {},        \* history: runs of initBrowser this createPage started
     gotos |-> 0]           \* history: calls of page.goto in this fetch

\* takeSnapshot before its run
NewSched ==
    [pc |-> "idle",
     run |-> 0,             \* runs of takeSnapshot started so far
     flights |-> << >>,     \* the flight numbers the query of this run returned
     index |-> 1,           \* position of the for loop
     attempts |-> << >>,    \* history: flight numbers passed to trackWaitlist
     outcomes |-> << >>,    \* history: how each of these calls ended
     engineRuns |-> 0,      \* history: calls of trackEliteStatus in this run
     schedulerInterval |-> None,  \* let schedulerInterval: the timer it refers to
     timers |-> << >>,      \* the timers made by setInterval
     starting |-> 0,        \* calls of startSnapshotScheduler awaiting takeSnapshot
     lastOp |-> ""]         \* history: the call that completed last

\* the challenge handler before its call
NewChal ==
    [pc |-> "idle",
     caller |-> "",              \* "next": part_006, "express": server.js
     page |-> "challenge",       \* what the page shows at this moment
     calls |-> 0,                \* history: calls of the handler in the request
     attempt |-> 0,              \* attempt (auth-utils.ts) or retries (browser-utils.ts)
     presses |-> 0,              \* history: mouse.down/up sequences in the request
     verificationAttempts |-> 0, \* server.js line 253
     lostToRecorder |-> 0,       \* history: attempts ended by a throw of the recorder
     screenshotErrors |-> 0,     \* history: page.screenshot rejections
     result |-> FALSE,           \* what the last call of the handler returned
     returnedOn |-> "",          \* history: what the page showed at that return
     outcome |-> ""]             \* how the caller went on

\* class Database (db.ts:47-50): db = null, initPromise = null; file tells
\* whether alaska_waitlist.db exists, resets counts the completed calls of
\* resetDatabase
NewDatabase == [db |-> "null", initPromise |-> "null", file |-> FALSE, resets |-> 0]

-----------------------------------------------------------------------------
(* Initial state: the module-level singletons right after import *)

Init ==
    /\ clock = ClockStartMs
    /\ tzOffset \in TzOffsets
    /\ lastScrapeTime = << >>
    /\ limiterCalls = [k \in FlightKeys |-> [op |-> "none", at |-> None]]
    /\ isDbAvailable = FALSE
    /\ database = NewDatabase
    /\ flights = {}
    /\ snapshots = {}
    /\ nextFlightId = 1
    /\ nextSnapshotId = 1
    /\ reqs = << >>
    /\ arrivals = 0
    /\ lastResponse = NewReq("", "", "", FALSE, ClockStartMs)
    /\ fetchLog = [k \in FlightKeys |-> [last |-> None, minGap |-> None, lastOk |-> None]]
    /\ eliteStatus = {}
    /\ lastCall = [fn |-> "none"]
    /\ browserInstance = None
    /\ browserInitPromise = None
    /\ connectionRetries = 0
    /\ browsers = << >>
    /\ inits = << >>
    /\ handlers = << >>
    /\ pages = << >>
    /\ fetches = [c \in 1..MaxFetches |-> NewFetch]
    /\ sched = NewSched
    /\ chal = NewChal

(* The wall clock advances by d *)
Advance(d, n) ==
    /\ clock + d <= ClockStartMs + n * d
    /\ clock' = clock + d
    /\ UNCHANGED <<tzOffset, database, sessionVars, sched, chal, lastCall, eliteStatus, lastScrapeTime, limiterCalls, storeVars, reqVars>>

Tick == Advance(TickMs, MaxTicks)

Poll == Advance(PollMs, MaxPolls)

-----------------------------------------------------------------------------
(* The limiter's public methods called directly *)

CallRecordScrape(k) ==
    /\ lastScrapeTime' = recordScrape(lastScrapeTime, k, clock)
    /\ limiterCalls' = [limiterCalls EXCEPT ![k] = [op |-> "recordScrape", at |-> clock]]
    /\ UNCHANGED <<clock, tzOffset, database, sessionVars, sched, chal, lastCall, eliteStatus, storeVars, reqVars>>

CallClearLimit(k) ==
    /\ lastScrapeTime' = clearLimit(lastScrapeTime, k)
    /\ limiterCalls' = [limiterCalls EXCEPT ![k] = [op |-> "clearLimit", at |-> clock]]
    /\ UNCHANGED <<clock, tzOffset, database, sessionVars, sched, chal, lastCall, eliteStatus, storeVars, reqVars>>

NextLimiter ==
    \/ Tick
    \/ \E k \in FlightKeys : CallRecordScrape(k)
    \/ \E k \in FlightKeys : CallClearLimit(k)

InitLimiter == Init /\ tzOffset = 0

SpecLimiter == InitLimiter /\ [][NextLimiter]_vars

\* C2: after recordScrape(k), canScrape(k) is false until intervalMs has
\* elapsed since that call and true from then on; after clearLimit(k), and
\* for a key never recorded, canScrape(k) is true at once.
C2_LimiterWindow ==
    \A k \in FlightKeys :
        /\ limiterCalls[k].op = "recordScrape" =>
              (canScrape(lastScrapeTime, k, clock)
                  <=> clock - limiterCalls[k].at >= intervalMs)
        /\ limiterCalls[k].op \in {"clearLimit", "none"} =>
              canScrape(lastScrapeTime, k, clock)

C2_Witness ==
    \E k1, k2 \in FlightKeys :
        /\ limiterCalls[k1].op = "recordScrape"
        /\ clock - limiterCalls[k1].at >= intervalMs
        /\ canScrape(lastScrapeTime, k1, clock)
        /\ limiterCalls[k2].op = "clearLimit"
        /\ limiterCalls[k2].at = clock

-----------------------------------------------------------------------------
(* The store: tables flights and waitlist_snapshots *)

\* CURRENT_TIMESTAMP: SQLite writes the UTC time as 'YYYY-MM-DD HH:MM:SS',
\* whole seconds.  The text is represented by the UTC instant it denotes.
CurrentTimestamp(now) == (now \div 1000) * 1000

\* new Date('YYYY-MM-DD HH:MM:SS'): a date-time text without a zone is read
\* as local time; tz is local time minus UTC.
ParseDate(text, tz) == IF text = None THEN 0 ELSE text - tz

\* JSON.stringify(names) for an array of strings: the text as its tokens
Tok(kind, text) == [kind |-> kind, text |-> text]

JSONStringify(names) ==
    LET k == Len(names)
        m == IF k = 0 THEN 2 ELSE 2 * k + 1
    IN  [j \in 1..m |->
            IF j = 1 THEN Tok("[", "")
            ELSE IF j = m THEN Tok("]", "")
            ELSE IF j % 2 = 0 THEN Tok("string", names[j \div 2])
            ELSE Tok(",", "")]

\* a NULL column: JSON.parse(null) reads the text 'null' and returns null
JSONNull == <<Tok("null", "")>>

\* JSON.parse(text) for the text of an array of strings
JSONParse(text) ==
    LET IsString(t) == t.kind = "string"
        strings == SelectSeq(text, IsString)
    IN  [n \in 1..Len(strings) |-> strings[n].text]

\* INSERT OR REPLACE INTO flights: the row with the same
\* (flight_number, flight_date, segment_index) is deleted and a new row with
\* a new AUTOINCREMENT id is inserted; foreign keys are not enforced, so
\* snapshots of the deleted row stay in their table.
SameSegment(f, segment, segmentIndex) ==
    /\ f.flight_number = segment.flightNumber
    /\ f.flight_date = segment.date
    /\ f.segment_index = segmentIndex

FlightRow(id, segment, segmentIndex) ==
    [id |-> id, flight_number |-> segment.flightNumber,
     flight_date |-> segment.date, origin |-> segment.origin,
     departure_time |-> segment.departureTime, segment_index |-> segmentIndex]

saveFlightSegment_insert(rows, id, segment, segmentIndex) ==
    rows \cup {FlightRow(id, segment, segmentIndex)}

saveFlightSegment(rows, id, segment, segmentIndex) ==
    {f \in rows : ~SameSegment(f, segment, segmentIndex)}
    \cup {FlightRow(id, segment, segmentIndex)}

saveWaitlistSnapshot(rows, id, flightId, names, now) ==
    rows \cup {[id |-> id, flight_id |-> flightId,
                waitlist_names |-> JSONStringify(names),
                snapshot_time |-> CurrentTimestamp(now)]}

\* the snapshot with rn = 1 of a flights row (ORDER BY snapshot_time DESC);
\* the columns of w are NULL when the LEFT JOIN finds no snapshot
LatestSnapshotOf(snaps, flightId) ==
    LET own == {w \in snaps : w.flight_id = flightId}
    IN  IF own = {}
        THEN [id |-> None, flight_id |-> None, snapshot_time |-> None,
              waitlist_names |-> JSONNull]
        ELSE LET w == CHOOSE x \in own :
                          \A y \in own : \/ x.snapshot_time > y.snapshot_time
                                         \/ /\ x.snapshot_time = y.snapshot_time
                                            /\ x.id >= y.id
             IN  [id |-> w.id, flight_id |-> w.flight_id,
                  snapshot_time |-> w.snapshot_time,
                  waitlist_names |-> w.waitlist_names]

\* one record per flights row of (flightNumber, flightDate), LEFT JOINed with
\* its latest snapshot, ORDER BY segment_index
getLatestWaitlistData(avail, frows, snaps, flightNumber, flightDate) ==
    IF ~avail THEN << >>
    ELSE LET match == {f \in frows : f.flight_number = flightNumber
                                     /\ f.flight_date = flightDate}
             Has(idx) == \E f \in match : f.segment_index = idx
             order == SelectSeq([n \in 1..(MaxSegments + 1) |-> n - 1], Has)
         IN  [n \in 1..Len(order) |->
                 LET f == CHOOSE g \in match : g.segment_index = order[n]
                     w == LatestSnapshotOf(snaps, f.id)
                 IN  [flight_id |-> w.flight_id, segment_index |-> f.segment_index,
                      origin |-> f.origin, departure_time |-> f.departure_time,
                      snapshot_time |-> w.snapshot_time,
                      waitlist_names |-> w.waitlist_names]]

InitDb ==
    /\ ~isDbAvailable
    /\ isDbAvailable' = TRUE
    /\ database' = [database EXCEPT !.db = "open", !.initPromise = "resolved",
                                     !.file = TRUE]
    /\ UNCHANGED <<clock, tzOffset, sessionVars, sched, chal, lastCall, eliteStatus, lastScrapeTime,
                   limiterCalls, flights, snapshots, nextFlightId, nextSnapshotId,
                   reqVars>>

-----------------------------------------------------------------------------
(* What the status page shows: one entry per flight segment *)

\* accordion = FALSE: the page has no accordion for the segment, so
\* parseWaitlistForSegment returns null
Infos == {[accordion |-> FALSE, names |-> << >>]}
         \cup {[accordion |-> TRUE, names |-> n] : n \in NameLists}

Contents == UNION {[1..n -> Infos] : n \in 0..MaxSegments}

\* what parseFlightSegments reads for a segment of the page of flightNumber:
\* the departure time 'HH:MM' is kept as its two numbers
PageOrigin == "SEA"

PageDepartureTime == <<21, 51>>

PageSegment(flightNumber) ==
    [flightNumber |-> flightNumber, date |-> FlightDate,
     origin |-> PageOrigin, departureTime |-> PageDepartureTime]

FindIndex_last(names, userName) ==
    IF \E n \in 1..Len(names) : names[n] = userName
    THEN CHOOSE n \in 1..Len(names) :
             /\ names[n] = userName
             /\ \A m \in (n + 1)..Len(names) : names[m] # userName
    ELSE 0

\* names.findIndex(name => name === userName), 1-based; 0 when absent
FindIndex(names, userName) ==
    IF \E n \in 1..Len(names) : names[n] = userName
    THEN CHOOSE n \in 1..Len(names) :
             /\ names[n] = userName
             /\ \A m \in 1..(n - 1) : names[m] # userName
    ELSE 0

Position(names, userName) ==
    IF FindIndex(names, userName) # 0 THEN FindIndex(names, userName) ELSE None

\* the texts found in the second column of the table, and their characters
CellTexts == {"ABC/J", "XYZ/K", "AB/C", "abc/j", "ABCD/J", ""}

Chars(text) ==
    CASE text = "ABC/J" -> <<"A", "B", "C", "/", "J">>
      [] text = "XYZ/K" -> <<"X", "Y", "Z", "/", "K">>
      [] text = "AB/C" -> <<"A", "B", "/", "C">>
      [] text = "abc/j" -> <<"a", "b", "c", "/", "j">>
      [] text = "ABCD/J" -> <<"A", "B", "C", "D", "/", "J">>
      [] OTHER -> << >>

UpperCase == {"A", "B", "C", "D", "E", "F", "G", "H", "I", "J", "K", "L", "M",
              "N", "O", "P", "Q", "R", "S", "T", "U", "V", "W", "X", "Y", "Z"}

\* name && /^[A-Z]{2,3}\/[A-Z]$/.test(name)
IsNameCode(text) ==
    LET c == Chars(text)
        n == Len(c)
    IN  /\ n \in {4, 5}
        /\ c[n] \in UpperCase
        /\ c[n - 1] = "/"
        /\ \A k \in 1..(n - 2) : c[k] \in UpperCase

\* rows.each(...): the names of the table rows that have the form of a name
\* code, in the order of the rows
parseWaitlistNames(rows) == SelectSeq(rows, IsNameCode)


-----------------------------------------------------------------------------
(* Waitlist diff and status engine (elite-status-tracker) *)

DayMs == 24 * 60 * 60 * 1000

HourMs == 60 * 60 * 1000

\* new Date('YYYY-MM-DD').getTime(): 00:00 UTC of the date; the clock of the
\* model starts on the second day before FlightDate
FlightDateMs == 13 * DayMs

DateMs(date) == IF date = FlightDate THEN FlightDateMs ELSE 0

\* the day of toISOString().split('T')[0]
DayOf(ms) == ms \div DayMs

\* WHERE f.flight_date BETWEEN today AND the day two days from now
InWindow(flightDate, now) ==
    /\ DayOf(now) <= DayOf(DateMs(flightDate))
    /\ DayOf(DateMs(flightDate)) <= DayOf(now + 2 * DayMs)

\* TIMEZONE_OFFSETS[airportCode] || -8
getAirportTimezone(airportCode) ==
    IF airportCode \in {"SFO", "LAX", "SEA", "PDX"} THEN 0 - 8
    ELSE IF airportCode \in {"JFK", "BOS", "MIA"} THEN 0 - 5
    ELSE IF airportCode \in {"ORD", "DFW"} THEN 0 - 6
    ELSE IF airportCode \in {"DEN", "PHX"} THEN 0 - 7
    ELSE 0 - 8

\* setHours(hours, minutes, 0, 0) sets the time of day on the local calendar
\* day of the process; the result is in whole hours, rounded down, which
\* compares with 72 and 48 as the quotient does
calculateHoursBeforeDeparture(departureTime, departureDate, origin, now, tz) ==
    LET airportOffset == getAirportTimezone(origin)
        localDay == (DateMs(departureDate) + tz) \div DayMs
        departure == localDay * DayMs
                     + (departureTime[1] * 60 + departureTime[2]) * 60 * 1000 - tz
        localDeparture == departure + airportOffset * HourMs
    IN  (localDeparture - now) \div HourMs

determineEliteStatus_rising(hoursBeforeDeparture) ==
    IF hoursBeforeDeparture >= 72 THEN "MVP_GOLD_75K"
    ELSE IF hoursBeforeDeparture >= 48 THEN "MVP"
    ELSE "MVP_GOLD"

determineEliteStatus_exclusive(hoursBeforeDeparture) ==
    IF hoursBeforeDeparture > 72 THEN "MVP_GOLD_75K"
    ELSE IF hoursBeforeDeparture > 48 THEN "MVP_GOLD"
    ELSE "MVP"

determineEliteStatus(hoursBeforeDeparture) ==
    IF hoursBeforeDeparture >= 72 THEN "MVP_GOLD_75K"
    ELSE IF hoursBeforeDeparture >= 48 THEN "MVP_GOLD"
    ELSE "MVP"

\* names.includes(name)
Includes(names, name) == \E n \in 1..Len(names) : names[n] = name

IndexOf_oneBased(names, name) == FindIndex(names, name)

\* names.indexOf(name): 0-based, -1 when absent
IndexOf(names, name) == FindIndex(names, name) - 1

Reordered_all(oldNames, newNames, common, k) ==
    [n \in 1..(Len(common) - k + 1) |->
        [passenger |-> common[k + n - 1],
         oldPosition |-> IndexOf(oldNames, common[k + n - 1]),
         newPosition |-> IndexOf(newNames, common[k + n - 1])]]

\* the entries of diff.reordered for the names common[k..]
RECURSIVE Reordered(_, _, _, _)
Reordered(oldNames, newNames, common, k) ==
    IF k > Len(common) THEN << >>
    ELSE LET name == common[k]
             oldPos == IndexOf(oldNames, name)
             newPos == IndexOf(newNames, name)
             rest == Reordered(oldNames, newNames, common, k + 1)
         IN  IF oldPos # newPos
             THEN <<[passenger |-> name, oldPosition |-> oldPos,
                     newPosition |-> newPos]>> \o rest
             ELSE rest

compareWaitlists_wrongList(oldNames, newNames) ==
    LET NotInNew(name) == ~Includes(newNames, name)
        InOld(name) == Includes(oldNames, name)
        commonNames == SelectSeq(newNames, InOld)
    IN  [added |-> SelectSeq(oldNames, NotInNew),
         removed |-> SelectSeq(oldNames, NotInNew),
         reordered |-> Reordered(oldNames, newNames, commonNames, 1)]

compareWaitlists(oldNames, newNames) ==
    LET NotInOld(name) == ~Includes(oldNames, name)
        NotInNew(name) == ~Includes(newNames, name)
        InOld(name) == Includes(oldNames, name)
        commonNames == SelectSeq(newNames, InOld)
    IN  [added |-> SelectSeq(newNames, NotInOld),
         removed |-> SelectSeq(oldNames, NotInNew),
         reordered |-> Reordered(oldNames, newNames, commonNames, 1)]

\* SELECT * FROM waitlist_snapshots WHERE flight_id = ? AND snapshot_time < ?
\* ORDER BY snapshot_time DESC LIMIT 1; the id None when there is no row
previousSnapshotBefore(snaps, flightId, snapshotTime) ==
    LET older == {w \in snaps : w.flight_id = flightId
                                /\ w.snapshot_time < snapshotTime}
    IN  IF older = {}
        THEN [id |-> None, flight_id |-> None, snapshot_time |-> None,
              waitlist_names |-> JSONNull]
        ELSE CHOOSE x \in older :
                 \A y \in older : \/ x.snapshot_time > y.snapshot_time
                                  \/ /\ x.snapshot_time = y.snapshot_time
                                     /\ x.id >= y.id

\* Map.set: the value of an existing key is replaced in place, a new key is
\* appended
MapSet(map, passenger, status) ==
    IF \E n \in 1..Len(map) : map[n].passenger = passenger
    THEN [n \in 1..Len(map) |->
             IF map[n].passenger = passenger
             THEN [passenger |-> passenger, status |-> status] ELSE map[n]]
    ELSE Append(map, [passenger |-> passenger, status |-> status])

\* waitlistNames.forEach((passenger, position) => ...): a new addition and an
\* existing passenger both get determineEliteStatus(hoursBeforeDeparture, ...),
\* which reads neither isNewAddition, position nor previousStatuses
RECURSIVE ForEachPassenger(_, _, _, _, _, _)
ForEachPassenger(waitlistNames, added, hours, previousStatuses, map, k) ==
    IF k > Len(waitlistNames) THEN map
    ELSE LET passenger == waitlistNames[k]
             status == IF Includes(added, passenger)
                       THEN determineEliteStatus(hours)
                       ELSE determineEliteStatus(hours)
         IN  ForEachPassenger(waitlistNames, added, hours, previousStatuses,
                              MapSet(map, passenger, status), k + 1)

processWaitlistSnapshot_added(flight, waitlistNames, previousSnapshot, previousStatuses, now, tz) ==
    LET hoursBeforeDeparture ==
            calculateHoursBeforeDeparture(flight.departure_time, flight.flight_date,
                                          flight.origin, now, tz)
        added == compareWaitlists(JSONParse(previousSnapshot.waitlist_names),
                                  waitlistNames).added
    IN  IF previousSnapshot.id = None
        THEN ForEachPassenger(waitlistNames, waitlistNames, hoursBeforeDeparture,
                              previousStatuses, << >>, 1)
        ELSE ForEachPassenger(added, added, hoursBeforeDeparture,
                              previousStatuses, << >>, 1)

\* processWaitlistSnapshot: the Map of new statuses, as the sequence of its
\* entries.  Without previous snapshot every passenger is a new addition;
\* with one, the added names of the diff are.
processWaitlistSnapshot(flight, waitlistNames, previousSnapshot, previousStatuses, now, tz) ==
    LET hoursBeforeDeparture ==
            calculateHoursBeforeDeparture(flight.departure_time, flight.flight_date,
                                          flight.origin, now, tz)
    IN  IF previousSnapshot.id = None
        THEN ForEachPassenger(waitlistNames, waitlistNames, hoursBeforeDeparture,
                              previousStatuses, << >>, 1)
        ELSE ForEachPassenger(
                 waitlistNames,
                 compareWaitlists(JSONParse(previousSnapshot.waitlist_names),
                                  waitlistNames).added,
                 hoursBeforeDeparture, previousStatuses, << >>, 1)

SameStatusKey(e, passenger, flightNumber, flightDate) ==
    /\ e.passenger = passenger
    /\ e.flight_number = flightNumber
    /\ e.flight_date = flightDate

StatusRow(passenger, status, flightNumber, flightDate) ==
    [passenger |-> passenger, status |-> status,
     flight_number |-> flightNumber, flight_date |-> flightDate]

saveStatus_insert(rows, passenger, status, flightNumber, flightDate) ==
    rows \cup {StatusRow(passenger, status, flightNumber, flightDate)}

\* INSERT OR REPLACE INTO elite_status, UNIQUE(passenger, flight_number,
\* flight_date)
saveStatus(rows, passenger, status, flightNumber, flightDate) ==
    {e \in rows : ~SameStatusKey(e, passenger, flightNumber, flightDate)}
    \cup {StatusRow(passenger, status, flightNumber, flightDate)}

\* for (const [passenger, status] of newStatuses.entries())
RECURSIVE SaveStatuses(_, _, _, _)
SaveStatuses(rows, flight, newStatuses, k) ==
    IF k > Len(newStatuses) THEN rows
    ELSE SaveStatuses(
             saveStatus(rows, newStatuses[k].passenger, newStatuses[k].status,
                        flight.flight_number, flight.flight_date),
             flight, newStatuses, k + 1)

\* SELECT DISTINCT flight_number, flight_date, origin, departure_time of the
\* flights in the window, ORDER BY flight_date, flight_number: the flight
\* numbers in ascending order
FlightOrder == <<"100", "200">>

WindowFlights(frows, flightNumber, now) ==
    {[flight_number |-> f.flight_number, flight_date |-> f.flight_date,
      origin |-> f.origin, departure_time |-> f.departure_time] :
        f \in {g \in frows : g.flight_number = flightNumber
                              /\ InWindow(g.flight_date, now)}}

\* the orders in which a result set may list the rows of one sort key
RECURSIVE Orders(_)
Orders(S) ==
    IF S = {} THEN {<< >>}
    ELSE UNION {{<<x>> \o q : q \in Orders(S \ {x})} : x \in S}

\* the result sets the query of trackEliteStatus (db-utils.ts:259-271) may
\* return from the k-th flight number on: ORDER BY flight_date, flight_number
\* fixes the order of the flight numbers and leaves open the order of the
\* rows of one flight number (the segments with different origin or
\* departure time)
RECURSIVE QueryFlights(_, _, _)
QueryFlights(frows, now, k) ==
    IF k > Len(FlightOrder) THEN {<< >>}
    ELSE {a \o b : a \in Orders(WindowFlights(frows, FlightOrder[k], now)),
                   b \in QueryFlights(frows, now, k + 1)}

\* the loop of trackEliteStatus from the k-th row of the result set on: the
\* rows of elite_status, and whether the function threw.  JSON.parse of the
\* NULL names of a first segment without snapshot gives null, on which
\* processWaitlistSnapshot throws; the catch block logs and rethrows.
RECURSIVE EliteLoop(_, _, _, _, _, _, _)
EliteLoop(result, frows, snaps, rows, k, now, tz) ==
    IF k > Len(result) THEN [elite |-> rows, threw |-> FALSE]
    ELSE LET flight == result[k]
             latestSnapshot == getLatestWaitlistData(TRUE, frows, snaps,
                                   flight.flight_number, flight.flight_date)
             snapshot == latestSnapshot[1]
             waitlistNames == JSONParse(snapshot.waitlist_names)
             previousSnapshot ==
                 previousSnapshotBefore(snaps, snapshot.flight_id,
                                        snapshot.snapshot_time)
             previousStatuses ==
                 {e \in rows : /\ e.flight_number = flight.flight_number
                               /\ e.flight_date = flight.flight_date}
             newStatuses ==
                 processWaitlistSnapshot(flight, waitlistNames,
                                         previousSnapshot, previousStatuses,
                                         now, tz)
         IN  IF snapshot.waitlist_names = JSONNull
             THEN [elite |-> rows, threw |-> TRUE]
             ELSE EliteLoop(result, frows, snaps,
                            SaveStatuses(rows, flight, newStatuses, 1),
                            k + 1, now, tz)

\* trackEliteStatus over the result set `result` of its query
\* db.db?.all(...) || []: without a database there is no flight to process
trackEliteStatusOver(result, avail, frows, snaps, rows, now, tz) ==
    IF ~avail THEN [elite |-> rows, threw |-> FALSE]
    ELSE EliteLoop(result, frows, snaps, rows, 1, now, tz)

\* trackEliteStatus where every stored flight number has one origin and one
\* departure time: the result set is then unique
trackEliteStatus(avail, frows, snaps, rows, now, tz) ==
    trackEliteStatusOver(CHOOSE q \in QueryFlights(frows, now, 1) : TRUE,
                         avail, frows, snaps, rows, now, tz)

-----------------------------------------------------------------------------
(* Bookkeeping of requests and of the fetch history *)

RemoveAt(seq, i) == [n \in 1..(Len(seq) - 1) |-> IF n < i THEN seq[n] ELSE seq[n + 1]]

Min(a, b) == IF a <= b THEN a ELSE b

\* a page fetch of key k starts now
LogFetchStart(log, k, now) ==
    [log EXCEPT ![k].last = now,
                ![k].minGap = IF log[k].last = None THEN log[k].minGap
                              ELSE IF log[k].minGap = None THEN now - log[k].last
                              ELSE Min(log[k].minGap, now - log[k].last)]

\* a page fetch of key k returned its segments now
LogFetchOk(log, k, now) == [log EXCEPT ![k].lastOk = now]

RecentOk(log, k, now) == log[k].lastOk # None /\ now - log[k].lastOk < intervalMs

\* request i is answered with r and leaves the set of requests in flight
Respond(i, r) ==
    /\ reqs' = RemoveAt(reqs, i)
    /\ lastResponse' = r
    /\ arrivals' = arrivals

-----------------------------------------------------------------------------
(* Express server: app.post('/api/trackWaitlist') *)

Store == [flights |-> flights, snapshots |-> snapshots,
          nextFlightId |-> nextFlightId, nextSnapshotId |-> nextSnapshotId,
          written |-> 0]

\* db.saveFlightSegment followed by db.saveWaitlistSnapshot for one segment;
\* writeFlight / writeSnapshot are the conditions the caller puts on them
SaveSegment(st, flightNumber, segmentIndex, info, now, writeFlight, writeSnapshot) ==
    IF ~(isDbAvailable /\ writeFlight) THEN st
    ELSE LET flightId == st.nextFlightId
             withFlight == [st EXCEPT
                 !.flights = saveFlightSegment(st.flights, flightId,
                                               PageSegment(flightNumber), segmentIndex),
                 !.nextFlightId = flightId + 1,
                 !.written = st.written + 1]
         IN  IF ~writeSnapshot THEN withFlight
             ELSE [withFlight EXCEPT
                 !.snapshots = saveWaitlistSnapshot(st.snapshots, st.nextSnapshotId,
                                                    flightId, info.names, now),
                 !.nextSnapshotId = st.nextSnapshotId + 1,
                 !.written = withFlight.written + 1]

\* segments.map(async (segment, index) => ...): a segment is saved only when
\* parseWaitlistForSegment returned a snapshot
RECURSIVE ExpressSaveAll(_, _, _, _, _)
ExpressSaveAll(st, flightNumber, content, n, now) ==
    IF n > Len(content) THEN st
    ELSE ExpressSaveAll(
             SaveSegment(st, flightNumber, n - 1, content[n], now,
                         content[n].accordion, content[n].accordion),
             flightNumber, content, n + 1, now)

ExpressSegments(content) ==
    [n \in 1..Len(content) |->
        [position |-> None, totalWaitlisted |-> None,
         names |-> content[n].names, error |-> ""]]

\* the errors whose message makes the handler call clearLimit
TransientErrors == {"Session closed", "Target closed", "Connection closed", "socket hang up"}

isTransient(message) == message \in TransientErrors

FetchErrors == {"Target closed", "Navigation timeout"}

\* the pages served to the Express handler: at most one segment
ExpressContents == {c \in Contents : Len(c) <= 1}

\* lines 208-231: validation, rate limit check, and the call of createPage()
ExpressPost(flightNumber, userName) ==
    /\ arrivals < MaxRequests
    /\ arrivals' = arrivals + 1
    /\ LET k == FlightKey(flightNumber, FlightDate)
           r == [NewReq("express", flightNumber, userName, TRUE, clock) EXCEPT
                    !.consulted = TRUE,
                    !.recentOk = RecentOk(fetchLog, k, clock)]
       IN  IF ~canScrape(lastScrapeTime, k, clock)
           THEN /\ lastResponse' = [r EXCEPT
                       !.pc = "done", !.status = 429,
                       !.waitTimeMs = getTimeUntilNextScrape(lastScrapeTime, k, clock)]
                /\ UNCHANGED <<reqs, fetchLog>>
           ELSE /\ reqs' = Append(reqs, [r EXCEPT !.pc = "createPage"])
                /\ fetchLog' = LogFetchStart(fetchLog, k, clock)
                /\ UNCHANGED lastResponse
    /\ UNCHANGED <<clock, tzOffset, database, sessionVars, sched, chal, lastCall, eliteStatus, lastScrapeTime, limiterCalls, storeVars>>

\* lines 385-406: the catch block and the finally block
ExpressFail(i, message) ==
    /\ Respond(i, [reqs[i] EXCEPT
           !.pc = "done", !.pageOpen = FALSE, !.error = message,
           !.status = IF isTransient(message) THEN 503 ELSE 500])
    /\ lastScrapeTime' = IF isTransient(message)
                         THEN clearLimit(lastScrapeTime, KeyOf(reqs[i]))
                         ELSE lastScrapeTime
    /\ UNCHANGED <<clock, tzOffset, database, sessionVars, sched, chal, lastCall, eliteStatus, limiterCalls, storeVars, fetchLog>>

\* line 231: page = await createPage()
ExpressCreatePage(i) ==
    /\ i \in DOMAIN reqs
    /\ reqs[i].gateway = "express"
    /\ reqs[i].pc = "createPage"
    /\ \/ /\ reqs' = [reqs EXCEPT ![i].pc = "scrape", ![i].pageOpen = TRUE,
                                  ![i].pagesCreated = 1]
          /\ UNCHANGED <<clock, tzOffset, database, sessionVars, sched, chal, lastCall, eliteStatus, lastScrapeTime, limiterCalls, storeVars,
                         arrivals, lastResponse, fetchLog>>
       \/ \E message \in FetchErrors : ExpressFail(i, message)

\* lines 236-383: navigation, verification, extraction, persistence,
\* recordScrape and the response
ExpressScrape(i) ==
    /\ i \in DOMAIN reqs
    /\ reqs[i].gateway = "express"
    /\ reqs[i].pc = "scrape"
    /\ \/ \E content \in ExpressContents :
            LET r == reqs[i]
                st == ExpressSaveAll(Store, r.flightNumber, content, 1, clock)
            IN  /\ flights' = st.flights
                /\ snapshots' = st.snapshots
                /\ nextFlightId' = st.nextFlightId
                /\ nextSnapshotId' = st.nextSnapshotId
                /\ lastScrapeTime' = recordScrape(lastScrapeTime, KeyOf(r), clock)
                /\ fetchLog' = LogFetchOk(fetchLog, KeyOf(r), clock)
                /\ Respond(i, [r EXCEPT
                       !.pc = "done", !.status = 200, !.pageOpen = FALSE,
                       !.served = "fresh", !.extracted = Len(content),
                       !.rowsWritten = st.written,
                       !.segments = ExpressSegments(content)])
                /\ UNCHANGED <<clock, tzOffset, database, sessionVars, sched, chal, lastCall, eliteStatus, limiterCalls, isDbAvailable>>
       \/ \E message \in FetchErrors : ExpressFail(i, message)

NextExpress ==
    \/ Tick
    \/ InitDb
    \/ \E n \in FlightNumbers, u \in UserNames : ExpressPost(n, u)
    \/ \E i \in 1..MaxRequests : ExpressCreatePage(i)
    \/ \E i \in 1..MaxRequests : ExpressScrape(i)

\* the handler parses no stored date: the time zone plays no part
InitExpress == Init /\ tzOffset = 0

SpecExpress == InitExpress /\ [][NextExpress]_vars


(* Properties of the Express handler *)

\* a step that answers a request
Answered ==
    \/ Len(reqs') < Len(reqs)
    \/ arrivals' = arrivals + 1 /\ Len(reqs') = Len(reqs)

\* the request that arrives in a step
Arrived == IF Len(reqs') > Len(reqs) THEN reqs'[Len(reqs')] ELSE lastResponse'

\* C1: for every key, two page fetches never start less than intervalMs apart.
C1_NoTwoFetchesInsideInterval ==
    \A k \in FlightKeys :
        fetchLog[k].minGap = None \/ fetchLog[k].minGap >= intervalMs

\* C3: recordScrape runs only with a successful answer for the key; a
\* transient connection error is answered 503 and leaves the key allowed; a
\* request that fails never removes or moves back a window that still blocks.
C3_OnlySuccessCounts ==
    [][/\ \A k \in FlightKeys :
            (/\ k \in DOMAIN lastScrapeTime'
             /\ (k \notin DOMAIN lastScrapeTime \/ lastScrapeTime'[k] # lastScrapeTime[k]))
            => (Answered /\ lastResponse'.status = 200 /\ KeyOf(lastResponse') = k)
       /\ (Answered /\ lastResponse'.error \in TransientErrors)
            => (/\ lastResponse'.status = 503
                /\ canScrape(lastScrapeTime', KeyOf(lastResponse'), clock'))
       /\ \A k \in FlightKeys :
            (/\ Answered /\ lastResponse'.status \in {500, 503}
             /\ ~canScrape(lastScrapeTime, k, clock))
            => (/\ k \in DOMAIN lastScrapeTime'
                /\ lastScrapeTime'[k] >= lastScrapeTime[k])
      ]_vars

-----------------------------------------------------------------------------
(* Next.js gateway: POST /api/trackWaitlist and trackWaitlist *)

FreshMs == 5 * 60 * 1000

\* if (!forceRefresh) ... else 'Bypassing cache due to force refresh'
BypassCache_never(forceRefresh) == FALSE

BypassCache(forceRefresh) == forceRefresh

\* snapshotTime > fiveMinutesAgo
IsFresh(snapshotTime, now) == snapshotTime > now - FreshMs

\* if (!segments.length) throw new Error('No flight segments found')
NoSegments_never(content) == FALSE

NoSegments(content) == Len(content) = 0

NoSegmentsFound == "No flight segments found"

\* what createPage or the navigation retry loop may throw
TrackErrors == {"Failed to create page after all retries"}

VerificationFailed == "Failed to complete verification"

\* how one press-and-hold attempt ends: the denial message or the captcha is
\* still there, the waitlist container is there, or a page call threw
AttemptOutcomes == {"denied", "waitlist", "threw"}

maxRetries == 2

\* the attempts a call can make: it stops at the first attempt that passes
VerificationRuns ==
    {run \in UNION {[1..n -> AttemptOutcomes] : n \in 1..(maxRetries + 1)} :
        /\ \A n \in 1..(Len(run) - 1) : run[n] # "waitlist"
        /\ Len(run) = maxRetries + 1 \/ run[Len(run)] = "waitlist"}

\* for (attempt = 0; attempt <= maxRetries; attempt++): true at the first
\* attempt that finds the waitlist container, false once an attempt fails
\* with attempt === maxRetries
RECURSIVE handlePressAndHoldVerification_attempt(_, _)
handlePressAndHoldVerification_attempt(run, attempt) ==
    IF attempt > maxRetries \/ attempt + 1 > Len(run) THEN FALSE
    ELSE IF run[attempt + 1] = "waitlist" THEN TRUE
    ELSE IF attempt = maxRetries THEN FALSE
    ELSE handlePressAndHoldVerification_attempt(run, attempt + 1)

handlePressAndHoldVerification_lenient(run) ==
    Len(run) > maxRetries \/ handlePressAndHoldVerification_attempt(run, 0)

handlePressAndHoldVerification(run) ==
    handlePressAndHoldVerification_attempt(run, 0)

\* the attempts of a run that did not pass
FailedAttempts(run) == Cardinality({n \in DOMAIN run : run[n] # "waitlist"})

\* the flight numbers requested from the gateway
TrackedFlights == {"100"}

\* the result of the catch block: one placeholder segment and the message
ErrorResult_bare(r, message) ==
    [r EXCEPT !.segments = <<[position |-> None, totalWaitlisted |-> None,
                              names |-> << >>, error |-> message]>>]

ErrorResult(r, message) ==
    [r EXCEPT !.error = message,
              !.segments = <<[position |-> None, totalWaitlisted |-> None,
                              names |-> << >>, error |-> message]>>]

\* the segments built from the cached records
CachedSegments(cachedData, userName) ==
    [n \in 1..Len(cachedData) |->
        LET text == IF cachedData[n].waitlist_names = JSONNull
                    THEN JSONStringify(<< >>)
                    ELSE cachedData[n].waitlist_names
            names == JSONParse(text)
        IN  [position |-> Position(names, userName),
             totalWaitlisted |-> Len(names),
             names |-> names, error |-> ""]]

\* the segments built from the page
FreshSegments(content, userName) ==
    [n \in 1..Len(content) |->
        [position |-> IF content[n].accordion
                      THEN Position(content[n].names, userName) ELSE None,
         totalWaitlisted |-> IF content[n].accordion
                             THEN Len(content[n].names) ELSE None,
         names |-> content[n].names, error |-> ""]]

\* the inner catch of the loop: convertDateFormat(segment.date) threw for the
\* date text of the page, which every segment shares
SegmentError == "Error processing segment"

FailedSegments(content) ==
    [n \in 1..Len(content) |->
        [position |-> None, totalWaitlisted |-> None,
         names |-> << >>, error |-> SegmentError]]

\* the error e reaches the outer catch of trackWaitlist while r is handled
Caught(r, message) == ErrorResult([r EXCEPT !.caught = message], message)

\* for (let i = 0; i < segments.length; i++): the flights row is written for
\* every segment, the snapshot when parseWaitlistForSegment returned one
RECURSIVE TrackSaveAll(_, _, _, _, _)
TrackSaveAll(st, flightNumber, content, n, now) ==
    IF n > Len(content) THEN st
    ELSE TrackSaveAll(
             SaveSegment(st, flightNumber, n - 1, content[n], now,
                         TRUE, content[n].accordion),
             flightNumber, content, n + 1, now)

\* the true age of the latest snapshot of each cached record
CacheAges(cachedData, now) ==
    [n \in 1..Len(cachedData) |->
        IF cachedData[n].snapshot_time = None THEN None
        ELSE now - cachedData[n].snapshot_time]

\* trackWaitlist up to its first await after the cache was ruled out:
\* createPage() is called
StartFetch(r) == [r EXCEPT !.pc = "createPage", !.decision = "fetch"]

\* POST lines 32-57 and trackWaitlist lines 66-73 / 134-139
NextPost(flightNumber, userName, forceRefresh) ==
    /\ arrivals < MaxRequests
    /\ arrivals' = arrivals + 1
    /\ LET k == FlightKey(flightNumber, FlightDate)
           r == [NewReq("next", flightNumber, userName, forceRefresh, clock) EXCEPT
                    !.consulted = TRUE,
                    !.recentOk = RecentOk(fetchLog, k, clock)]
       IN  IF ~canScrape(lastScrapeTime, k, clock)
           THEN /\ lastResponse' = [r EXCEPT
                       !.pc = "done", !.status = 429,
                       !.waitTimeMs = getTimeUntilNextScrape(lastScrapeTime, k, clock)]
                /\ UNCHANGED <<reqs, fetchLog>>
           ELSE IF BypassCache(forceRefresh)
           THEN /\ reqs' = Append(reqs, StartFetch(r))
                /\ fetchLog' = LogFetchStart(fetchLog, k, clock)
                /\ UNCHANGED lastResponse
           ELSE /\ reqs' = Append(reqs, [r EXCEPT !.pc = "cache"])
                /\ UNCHANGED <<lastResponse, fetchLog>>
    /\ UNCHANGED <<clock, tzOffset, database, sessionVars, sched, chal, lastCall, eliteStatus, lastScrapeTime, limiterCalls, storeVars>>

\* POST lines 59-95 with the result r of trackWaitlist and the tables st it
\* left: trackEliteStatus(db) runs before the answer, and when it throws the
\* catch block answers 500
NextAnswer(i, r, st) ==
    LET run == trackEliteStatus(isDbAvailable, st.flights, st.snapshots,
                                eliteStatus, clock, tzOffset)
    IN  /\ eliteStatus' = run.elite
        /\ Respond(i, [r EXCEPT !.pc = "done",
                                !.status = IF run.threw THEN 500 ELSE 200])

\* trackWaitlist lines 73-139: the cached records, the freshness test on the
\* first of them, and either the cached result (and the answer of POST) or
\* the call of createPage()
TrackCacheLookup(i) ==
    /\ i \in DOMAIN reqs
    /\ reqs[i].gateway = "next"
    /\ reqs[i].pc = "cache"
    /\ LET r == reqs[i]
           cachedData == getLatestWaitlistData(isDbAvailable, flights, snapshots,
                                               r.flightNumber, FlightDate)
           aged == [r EXCEPT !.cacheAges = CacheAges(cachedData, clock)]
       IN  IF /\ Len(cachedData) > 0
              /\ IsFresh(ParseDate(cachedData[1].snapshot_time, tzOffset), clock)
           THEN /\ NextAnswer(i, [aged EXCEPT
                       !.decision = "cache", !.served = "cache",
                       !.segments = CachedSegments(cachedData, r.userName)], Store)
                /\ UNCHANGED fetchLog
           ELSE /\ reqs' = [reqs EXCEPT ![i] = StartFetch(aged)]
                /\ fetchLog' = LogFetchStart(fetchLog, KeyOf(r), clock)
                /\ UNCHANGED <<arrivals, lastResponse, eliteStatus>>
    /\ UNCHANGED <<clock, tzOffset, database, sessionVars, sched, chal, lastCall, lastScrapeTime, limiterCalls, storeVars>>

\* trackWaitlist line 139: page = await createPage(); on a throw the catch
\* block builds the error result, which POST answers
TrackCreatePage(i) ==
    /\ i \in DOMAIN reqs
    /\ reqs[i].gateway = "next"
    /\ reqs[i].pc = "createPage"
    /\ \/ /\ reqs' = [reqs EXCEPT ![i].pc = "fetch", ![i].pageOpen = TRUE,
                                  ![i].pagesCreated = 1]
          /\ UNCHANGED <<arrivals, lastResponse, eliteStatus>>
       \/ \E message \in TrackErrors : NextAnswer(i, Caught(reqs[i], message), Store)
    /\ UNCHANGED <<clock, tzOffset, database, sessionVars, sched, chal, lastCall, lastScrapeTime, limiterCalls, storeVars, fetchLog>>

\* trackWaitlist lines 140-194: the navigation retry loop, needsVerification
\* and the press-and-hold attempts; a throw goes to the catch block, the
\* finally block closes the page, and POST answers
TrackNavigate(i) ==
    /\ i \in DOMAIN reqs
    /\ reqs[i].gateway = "next"
    /\ reqs[i].pc = "fetch"
    /\ \/ \E run \in {<< >>} \cup VerificationRuns :
            LET verified == [reqs[i] EXCEPT !.challenge = run # << >>,
                                            !.failedAttempts = FailedAttempts(run)]
            IN  IF run # << >> /\ ~handlePressAndHoldVerification(run)
                THEN NextAnswer(i, Caught([verified EXCEPT !.pageOpen = FALSE],
                                          VerificationFailed), Store)
                ELSE /\ reqs' = [reqs EXCEPT ![i] = [verified EXCEPT !.pc = "extract"]]
                     /\ UNCHANGED <<arrivals, lastResponse, eliteStatus>>
       \/ \E message \in TrackErrors :
            NextAnswer(i, Caught([reqs[i] EXCEPT !.pageOpen = FALSE], message), Store)
    /\ UNCHANGED <<clock, tzOffset, database, sessionVars, sched, chal, lastCall, lastScrapeTime, limiterCalls, storeVars,
                   fetchLog>>

\* trackWaitlist lines 196-284: the content of the page, parseFlightSegments,
\* the save of every segment, the result, page.close() in the finally block,
\* and the answer of POST
TrackFetch(i) ==
    /\ i \in DOMAIN reqs
    /\ reqs[i].gateway = "next"
    /\ reqs[i].pc = "extract"
    /\ \E content \in Contents, dateOk \in BOOLEAN :
          LET r == [reqs[i] EXCEPT !.pageOpen = FALSE, !.extracted = Len(content)]
              st == TrackSaveAll(Store, r.flightNumber, content, 1, clock)
          IN  IF NoSegments(content)
              THEN /\ NextAnswer(i, Caught(r, NoSegmentsFound), Store)
                   /\ UNCHANGED <<flights, snapshots, nextFlightId, nextSnapshotId,
                                  fetchLog>>
              ELSE IF ~dateOk
              THEN /\ NextAnswer(i, [r EXCEPT !.served = "fresh",
                                              !.segments = FailedSegments(content)],
                                 Store)
                   /\ UNCHANGED <<flights, snapshots, nextFlightId, nextSnapshotId,
                                  fetchLog>>
              ELSE /\ flights' = st.flights
                   /\ snapshots' = st.snapshots
                   /\ nextFlightId' = st.nextFlightId
                   /\ nextSnapshotId' = st.nextSnapshotId
                   /\ fetchLog' = LogFetchOk(fetchLog, KeyOf(r), clock)
                   /\ NextAnswer(i, [r EXCEPT
                          !.served = "fresh", !.rowsWritten = st.written,
                          !.segments = FreshSegments(content, r.userName)], st)
    /\ UNCHANGED <<clock, tzOffset, database, sessionVars, sched, chal, lastCall, lastScrapeTime, limiterCalls,
                   isDbAvailable>>

NextGateway ==
    \/ Poll
    \/ InitDb
    \/ \E n \in TrackedFlights, u \in UserNames, f \in BOOLEAN : NextPost(n, u, f)
    \/ \E i \in 1..MaxRequests : TrackCacheLookup(i)
    \/ \E i \in 1..MaxRequests : TrackCreatePage(i)
    \/ \E i \in 1..MaxRequests : TrackNavigate(i)
    \/ \E i \in 1..MaxRequests : TrackFetch(i)

SpecNext == Init /\ [][NextGateway]_vars


(* Properties of the Next.js gateway *)

\* the requests in flight and the one answered last
Seen == {reqs[i] : i \in DOMAIN reqs} \cup {lastResponse}

Tracked == {r \in Seen : r.gateway = "next"}

\* the age of the youngest snapshot among the cached records, None if none
LatestAge(ages) ==
    LET known == {ages[n] : n \in DOMAIN ages} \ {None}
    IN  IF known = {} THEN None
        ELSE CHOOSE a \in known : \A b \in known : a <= b

\* C4: a fresh fetch that succeeded for key k is recorded in the limiter, and
\* a request with forceRefresh for k that arrives less than intervalMs after
\* it is answered 429 and starts no fetch.
C4_FetchRecorded ==
    /\ \A k \in FlightKeys :
          fetchLog[k].lastOk # None =>
              (k \in DOMAIN lastScrapeTime /\ lastScrapeTime[k] >= fetchLog[k].lastOk)
    /\ \A r \in Tracked :
          (r.forceRefresh /\ r.recentOk) => (r.status = 429 /\ r.decision # "fetch")

\* every cached record has a snapshot younger than 5 minutes
AllYounger(ages) ==
    /\ Len(ages) > 0
    /\ \A n \in DOMAIN ages : ages[n] # None /\ ages[n] < FreshMs

\* C6: without forceRefresh, when the latest snapshots of the flight/date are
\* younger than 5 minutes the stored result is served and no page is created,
\* and when the youngest of them is older than 5 minutes a fetch is started.
C6_FreshnessDecision ==
    \A r \in Tracked :
        (~r.forceRefresh /\ r.decision # "") =>
            /\ AllYounger(r.cacheAges) =>
                  (r.decision = "cache" /\ r.pagesCreated = 0)
            /\ (LatestAge(r.cacheAges) # None /\ LatestAge(r.cacheAges) > FreshMs) =>
                  r.decision = "fetch"

\* C7: the stored result is served only if every segment of the flight/date
\* has a snapshot captured within 5 minutes of the decision (stated for a
\* process whose local time is UTC, where stored times are read back as
\* written).
C7_EverySegmentFresh ==
    \A r \in Tracked :
        (tzOffset = 0 /\ r.decision = "cache") =>
            /\ Len(r.cacheAges) > 0
            /\ \A n \in DOMAIN r.cacheAges :
                  r.cacheAges[n] # None /\ r.cacheAges[n] <= FreshMs

\* C8: a request answered from the cache has not consulted the limiter.
C8_CacheHitSkipsLimiter ==
    \A r \in Tracked : r.decision = "cache" => ~r.consulted

\* C9: a request with forceRefresh never reads the cache and is never served
\* from it: trackWaitlist goes straight to a fresh fetch.
C9_ForceRefreshBypassesCache ==
    \A r \in Tracked :
        r.forceRefresh =>
            (r.decision = "fetch" /\ r.served # "cache" /\ r.cacheAges = << >>)

\* a forced request that arrived after a successful fetch holds a page while
\* the store has a snapshot an unforced request would be served
C9_Witness ==
    \E i \in DOMAIN reqs :
        /\ reqs[i].gateway = "next"
        /\ reqs[i].forceRefresh
        /\ reqs[i].recentOk
        /\ reqs[i].pageOpen
        /\ LET cachedData == getLatestWaitlistData(isDbAvailable, flights, snapshots,
                                                   reqs[i].flightNumber, FlightDate)
           IN  /\ Len(cachedData) > 0
               /\ cachedData[1].snapshot_time # None
               /\ IsFresh(cachedData[1].snapshot_time, clock)
               /\ IsFresh(ParseDate(cachedData[1].snapshot_time, tzOffset), clock)

\* C10: a fetch whose page yields no segment ends in the error result
\* 'No flight segments found' with the placeholder segment, never in a
\* success, and writes no row.
C10_NoSegmentsIsFailure ==
    \A r \in Tracked :
        r.extracted = 0 =>
            /\ r.served = ""
            /\ r.error = NoSegmentsFound
            /\ Len(r.segments) = 1
            /\ r.segments[1].error = NoSegmentsFound
            /\ r.segments[1].position = None
            /\ r.rowsWritten = 0

C10_Witness ==
    /\ lastResponse.gateway = "next"
    /\ lastResponse.extracted = 0
    /\ lastResponse.pagesCreated = 1
    /\ lastResponse.status = 200
    /\ isDbAvailable

\* C11: when a challenge was detected and all maxRetries + 1 press-and-hold
\* attempts failed, trackWaitlist answers with the failure result 'Failed to
\* complete verification' and the request writes no flights row and no
\* snapshot.
C11_ChallengeFailedAborts ==
    [][(/\ Answered
        /\ lastResponse'.gateway = "next"
        /\ lastResponse'.challenge
        /\ lastResponse'.failedAttempts = maxRetries + 1)
       => (/\ lastResponse'.error = VerificationFailed
           /\ lastResponse'.served = ""
           /\ lastResponse'.rowsWritten = 0
           /\ Len(lastResponse'.segments) = 1
           /\ lastResponse'.segments[1].error = VerificationFailed
           /\ UNCHANGED <<flights, snapshots, nextFlightId, nextSnapshotId>>)
      ]_vars

C11_Witness ==
    /\ lastResponse.gateway = "next"
    /\ lastResponse.challenge
    /\ lastResponse.failedAttempts = maxRetries + 1
    /\ lastResponse.error = VerificationFailed
    /\ lastResponse.pagesCreated = 1
    /\ isDbAvailable

-----------------------------------------------------------------------------
(* The functions of the extractor, the gateway and the engine called on     *)
(* their own: they keep no state, so a behaviour is one call                *)

TableRows == UNION {[1..n -> CellTexts] : n \in 0..MaxRows}

PositionUsers == {"XYZ/K", "AB/C", "xyz/k"}

DiffNames == {"ABC/J", "XYZ/K", "AB/C"}

DiffLists == UNION {[1..n -> DiffNames] : n \in 0..MaxRows}

HoursBefore == (0 - 5)..MaxHours

\* parseWaitlistForSegment on a table with the given rows, the position of
\* the fresh path, and the position of the cached path once the segment and
\* its snapshot went through the tables
CallTrackPosition(rows, userName) ==
    LET names == parseWaitlistNames(rows)
        content == <<[accordion |-> TRUE, names |-> names]>>
        frows == saveFlightSegment({}, 1, PageSegment("100"), 0)
        snaps == saveWaitlistSnapshot({}, 1, 1, names, clock)
        cachedData == getLatestWaitlistData(TRUE, frows, snaps, "100", FlightDate)
        fresh == FreshSegments(content, userName)[1]
        cached == CachedSegments(cachedData, userName)[1]
    IN  /\ lastCall.fn = "none"
        /\ lastCall' = [fn |-> "trackWaitlist", rows |-> rows, userName |-> userName,
                        names |-> fresh.names, position |-> fresh.position,
                        cachedNames |-> cached.names,
                        cachedPosition |-> cached.position]
        /\ UNCHANGED <<clock, tzOffset, database, sessionVars, sched, chal, lastScrapeTime, limiterCalls, storeVars,
                       reqVars, eliteStatus>>

CallCompareWaitlists(oldNames, newNames) ==
    /\ lastCall.fn = "none"
    /\ lastCall' = [fn |-> "compareWaitlists", oldNames |-> oldNames,
                    newNames |-> newNames,
                    diff |-> compareWaitlists(oldNames, newNames),
                    swapped |-> compareWaitlists(newNames, oldNames)]
    /\ UNCHANGED <<clock, tzOffset, database, sessionVars, sched, chal, lastScrapeTime, limiterCalls, storeVars,
                   reqVars, eliteStatus>>

CallDetermineEliteStatus(hoursBeforeDeparture) ==
    /\ lastCall.fn = "none"
    /\ lastCall' = [fn |-> "determineEliteStatus", hours |-> hoursBeforeDeparture,
                    status |-> determineEliteStatus(hoursBeforeDeparture)]
    /\ UNCHANGED <<clock, tzOffset, database, sessionVars, sched, chal, lastScrapeTime, limiterCalls, storeVars,
                   reqVars, eliteStatus>>

\* departure times on either side of the 48-hour threshold at the first
\* moment of the clock
DepartureTimes == {<<13, 46>>, PageDepartureTime}

\* the previous snapshot handed to processWaitlistSnapshot: none, or a row
\* with a list of names
PreviousSnapshots ==
    {[id |-> None, flight_id |-> None, snapshot_time |-> None,
      waitlist_names |-> JSONNull]}
    \cup {[id |-> 1, flight_id |-> 1, snapshot_time |-> ClockStartMs - TickMs,
           waitlist_names |-> JSONStringify(names)] : names \in DiffLists}

PreviousStatusSets ==
    {{}, {StatusRow("XYZ/K", "MVP_GOLD_75K", "100", FlightDate)},
     {StatusRow("ABC/J", "MVP", "100", FlightDate),
      StatusRow("XYZ/K", "MVP_GOLD", "100", FlightDate)}}

CallProcessWaitlistSnapshot(departureTime, waitlistNames, previousSnapshot, previousStatuses) ==
    LET flight == [flight_number |-> "100", flight_date |-> FlightDate,
                   origin |-> PageOrigin, departure_time |-> departureTime]
        none == CHOOSE w \in PreviousSnapshots : w.id = None
    IN  /\ lastCall.fn = "none"
        /\ lastCall' = [fn |-> "processWaitlistSnapshot",
                        waitlistNames |-> waitlistNames,
                        previousSnapshot |-> previousSnapshot,
                        previousStatuses |-> previousStatuses,
                        hours |-> calculateHoursBeforeDeparture(
                                      departureTime, FlightDate, PageOrigin,
                                      clock, tzOffset),
                        newStatuses |-> processWaitlistSnapshot(
                                            flight, waitlistNames, previousSnapshot,
                                            previousStatuses, clock, tzOffset),
                        first |-> processWaitlistSnapshot(
                                      flight, waitlistNames, none, {},
                                      clock, tzOffset)]
        /\ UNCHANGED <<clock, tzOffset, database, sessionVars, sched, chal, lastScrapeTime, limiterCalls, storeVars,
                       reqVars, eliteStatus>>

\* the text of a span of .waitlist-text-container: the label it includes and
\* the first run of digits in it, text.match(/\d+/), which is null without
\* a digit
SpanTexts ==
    {[label |-> l, digits |-> d] :
        l \in {"capacity", "Available", "Checked-in", "other"}, d \in {None, 4, 12}}

SpanLists == UNION {[1..n -> SpanTexts] : n \in 0..MaxSpans}

SegmentRows == {<< >>, <<"ABC/J", "abc/j", "XYZ/K">>}

\* waitlistInfo before the spans are read
EmptyWaitlistInfo ==
    [capacity |-> None, available |-> None, checkedIn |-> None, threw |-> FALSE]

\* the assignment of one span to waitlistInfo
SetCounter(info, label, value) ==
    IF label = "capacity" THEN [info EXCEPT !.capacity = value]
    ELSE IF label = "Available" THEN [info EXCEPT !.available = value]
    ELSE IF label = "Checked-in" THEN [info EXCEPT !.checkedIn = value]
    ELSE info

\* auth-utils.ts:257-268: parseInt(text.match(/\d+/)?.[0] || '0')
RECURSIVE ParseCounters(_, _, _)
ParseCounters(spans, k, info) ==
    IF k > Len(spans) THEN info
    ELSE ParseCounters(spans, k + 1,
             SetCounter(info, spans[k].label,
                        IF spans[k].digits = None THEN 0 ELSE spans[k].digits))

\* part_001:120-131: parseInt(text.match(/\d+/)[0]), a TypeError when a
\* labeled span has no digit
RECURSIVE JsParseCounters(_, _, _)
JsParseCounters(spans, k, info) ==
    IF k > Len(spans) THEN info
    ELSE IF spans[k].label # "other" /\ spans[k].digits = None
    THEN [info EXCEPT !.threw = TRUE]
    ELSE JsParseCounters(spans, k + 1,
                         SetCounter(info, spans[k].label, spans[k].digits))

\* parseWaitlistForSegment on an upgrade container with these spans and
\* table rows: variant "ts" is auth-utils.ts:225-286, "js" is part_001:107-147
parseWaitlistForSegment(variant, spans, rows) ==
    LET info == IF variant = "ts" THEN ParseCounters(spans, 1, EmptyWaitlistInfo)
                ELSE JsParseCounters(spans, 1, EmptyWaitlistInfo)
    IN  [capacity |-> info.capacity, available |-> info.available,
         checkedIn |-> info.checkedIn, threw |-> info.threw,
         names |-> IF info.threw THEN << >> ELSE parseWaitlistNames(rows)]

CallParseWaitlistForSegment(variant, spans, rows) ==
    /\ lastCall.fn = "none"
    /\ lastCall' = [fn |-> "parseWaitlistForSegment", spans |-> spans, rows |-> rows,
                    info |-> parseWaitlistForSegment(variant, spans, rows)]
    /\ UNCHANGED <<clock, tzOffset, database, sessionVars, sched, chal, lastScrapeTime,
                   limiterCalls, storeVars, reqVars, eliteStatus>>

NextCalls ==
    \/ \E rows \in TableRows, u \in PositionUsers : CallTrackPosition(rows, u)
    \/ \E v \in {"ts", "js"}, spans \in SpanLists, rows \in SegmentRows :
          CallParseWaitlistForSegment(v, spans, rows)
    \/ \E a, b \in DiffLists : CallCompareWaitlists(a, b)
    \/ \E h \in HoursBefore : CallDetermineEliteStatus(h)
    \/ \E t \in DepartureTimes, names \in DiffLists, w \in PreviousSnapshots,
          e \in PreviousStatusSets : CallProcessWaitlistSnapshot(t, names, w, e)

InitCalls == Init /\ tzOffset = 0

SpecCalls == InitCalls /\ [][NextCalls]_vars

\* the 0-based index of the first occurrence of name in names is pos
FirstAt(names, name, pos) ==
    /\ pos + 1 \in 1..Len(names)
    /\ names[pos + 1] = name
    /\ \A m \in 1..pos : names[m] # name

\* sub keeps elements of seq in their order
IsSubsequence(sub, seq) ==
    \E f \in [1..Len(sub) -> 1..Len(seq)] :
        /\ \A n \in 1..Len(sub) : sub[n] = seq[f[n]]
        /\ \A n, m \in 1..Len(sub) : n < m => f[n] < f[m]

\* the value the counter with this label has when it degrades field by
\* field: the integer of the last span that carries the label and an
\* integer, null when there is none
RECURSIVE CounterOf(_, _, _)
CounterOf(spans, label, k) ==
    IF k = 0 THEN None
    ELSE IF spans[k].label = label /\ spans[k].digits # None THEN spans[k].digits
    ELSE CounterOf(spans, label, k - 1)

\* C34: parseWaitlistForSegment does not abort, a counter whose label is
\* missing or carries no integer is null, and the other counters and the
\* passenger list are extracted.
C34_FieldByField ==
    lastCall.fn = "parseWaitlistForSegment" =>
        LET spans == lastCall.spans
            info == lastCall.info
        IN  /\ ~info.threw
            /\ info.capacity = CounterOf(spans, "capacity", Len(spans))
            /\ info.available = CounterOf(spans, "Available", Len(spans))
            /\ info.checkedIn = CounterOf(spans, "Checked-in", Len(spans))
            /\ info.names = parseWaitlistNames(lastCall.rows)

\* C13: the passenger list holds the name codes of the table rows in the
\* order of the rows; the position reported for p is the index of the first
\* occurrence of p in that list plus one, null when p is not in it; the
\* cached path reads the same list back and reports the same position.
C13_PositionIsFirstIndex ==
    lastCall.fn = "trackWaitlist" =>
        LET names == lastCall.names
            p == lastCall.userName
        IN  /\ IsSubsequence(names, lastCall.rows)
            /\ Len(names) = Cardinality({n \in 1..Len(lastCall.rows) :
                                             IsNameCode(lastCall.rows[n])})
            /\ IF \E n \in 1..Len(names) : names[n] = p
               THEN FirstAt(names, p, lastCall.position - 1)
               ELSE lastCall.position = None
            /\ lastCall.cachedNames = names
            /\ lastCall.cachedPosition = lastCall.position

C13_Witness ==
    /\ lastCall.fn = "trackWaitlist"
    /\ Len(lastCall.rows) = 3
    /\ ~IsNameCode(lastCall.rows[1])
    /\ lastCall.names = <<lastCall.userName, lastCall.userName>>
    /\ lastCall.position = 1
    /\ lastCall.cachedPosition = 1

\* C17: compareWaitlists(L, L) has no added, no removed and no reordered
\* entry.
C17_DiffOfSameList ==
    (lastCall.fn = "compareWaitlists" /\ lastCall.oldNames = lastCall.newNames) =>
        /\ lastCall.diff.added = << >>
        /\ lastCall.diff.removed = << >>
        /\ lastCall.diff.reordered = << >>

C17_Witness ==
    /\ lastCall.fn = "compareWaitlists"
    /\ lastCall.oldNames = lastCall.newNames
    /\ Len(lastCall.oldNames) = 3
    /\ lastCall.oldNames[1] = lastCall.oldNames[3]
    /\ lastCall.oldNames[1] # lastCall.oldNames[2]
    /\ lastCall.diff.reordered = << >>

\* C18: compareWaitlists(A, B).added = compareWaitlists(B, A).removed and
\* compareWaitlists(A, B).removed = compareWaitlists(B, A).added.
C18_DiffSwap ==
    lastCall.fn = "compareWaitlists" =>
        /\ lastCall.diff.added = lastCall.swapped.removed
        /\ lastCall.diff.removed = lastCall.swapped.added

C18_Witness ==
    /\ lastCall.fn = "compareWaitlists"
    /\ Len(lastCall.diff.added) = 2
    /\ Len(lastCall.diff.removed) = 1
    /\ lastCall.swapped.removed = lastCall.diff.added
    /\ lastCall.swapped.added = lastCall.diff.removed

\* C19: reordered has an entry for exactly the passengers in both lists
\* whose first index differs between the lists; an entry records the 0-based
\* first index in old and in new; no passenger of added or removed has an
\* entry.
C19_ReorderedEntries ==
    lastCall.fn = "compareWaitlists" =>
        LET old == lastCall.oldNames
            new == lastCall.newNames
            entries == lastCall.diff.reordered
            Moved(name) == /\ Includes(old, name)
                           /\ Includes(new, name)
                           /\ \E a \in 0..(Len(old) - 1), b \in 0..(Len(new) - 1) :
                                 /\ FirstAt(old, name, a)
                                 /\ FirstAt(new, name, b)
                                 /\ a # b
        IN  /\ \A name \in DiffNames :
                  Moved(name) <=> \E n \in 1..Len(entries) : entries[n].passenger = name
            /\ \A n \in 1..Len(entries) :
                  /\ FirstAt(old, entries[n].passenger, entries[n].oldPosition)
                  /\ FirstAt(new, entries[n].passenger, entries[n].newPosition)
                  /\ ~Includes(lastCall.diff.added, entries[n].passenger)
                  /\ ~Includes(lastCall.diff.removed, entries[n].passenger)

C19_Witness ==
    /\ lastCall.fn = "compareWaitlists"
    /\ Len(lastCall.diff.reordered) = 2
    /\ lastCall.diff.reordered[1].oldPosition = 1
    /\ lastCall.diff.reordered[1].newPosition = 0
    /\ Len(lastCall.diff.added) = 1
    /\ Len(lastCall.diff.removed) = 0

\* C20: determineEliteStatus gives MVP_GOLD_75K for 72 hours or more,
\* MVP_GOLD from 48 hours to less than 72, MVP below 48; the hours 72 and 48
\* themselves get the higher tier.
C20_TierByHours ==
    lastCall.fn = "determineEliteStatus" =>
        /\ lastCall.hours >= 72 => lastCall.status = "MVP_GOLD_75K"
        /\ (lastCall.hours >= 48 /\ lastCall.hours < 72) => lastCall.status = "MVP_GOLD"
        /\ lastCall.hours < 48 => lastCall.status = "MVP"

C20_Witness ==
    /\ lastCall.fn = "determineEliteStatus"
    /\ lastCall.hours = 72
    /\ lastCall.status = "MVP_GOLD_75K"

-----------------------------------------------------------------------------
(* Database.saveFlightSegment called on its own *)

StoreSegments ==
    [flightNumber : FlightNumbers, date : {FlightDate},
     origin : {"SEA", "JFK"}, departureTime : {PageDepartureTime, <<9, 15>>}]

\* ok = FALSE: this.db.run rejects, the catch block returns null
CallSaveFlightSegment(segment, segmentIndex, ok) ==
    /\ nextFlightId <= MaxSaves
    /\ IF isDbAvailable /\ ok
       THEN /\ flights' = saveFlightSegment(flights, nextFlightId, segment, segmentIndex)
            /\ nextFlightId' = nextFlightId + 1
            /\ lastCall' = [fn |-> "saveFlightSegment", segment |-> segment,
                            segmentIndex |-> segmentIndex, result |-> nextFlightId]
       ELSE /\ lastCall' = [fn |-> "saveFlightSegment", segment |-> segment,
                            segmentIndex |-> segmentIndex, result |-> None]
            /\ UNCHANGED <<flights, nextFlightId>>
    /\ UNCHANGED <<clock, tzOffset, database, sessionVars, sched, chal, lastScrapeTime, limiterCalls, isDbAvailable,
                   snapshots, nextSnapshotId, reqVars, eliteStatus>>

NextStore ==
    \/ InitDb
    \/ \E segment \in StoreSegments, n \in 0..(MaxSegments - 1), ok \in BOOLEAN :
          CallSaveFlightSegment(segment, n, ok)

InitStore == Init /\ tzOffset = 0

SpecStore == InitStore /\ [][NextStore]_vars

\* C15: there is at most one flights row per (flight_number, flight_date,
\* segment_index); a call that saves leaves for its key the row with the
\* values it was given and leaves the rows of the other keys as they were; a
\* call that does not save leaves the table as it was.
C15_UpsertLatestWins ==
    [][/\ \A f, g \in flights' :
            (/\ f.flight_number = g.flight_number
             /\ f.flight_date = g.flight_date
             /\ f.segment_index = g.segment_index) => f = g
       /\ (lastCall'.fn = "saveFlightSegment" /\ lastCall'.result # None) =>
            /\ FlightRow(lastCall'.result, lastCall'.segment, lastCall'.segmentIndex)
                  \in flights'
            /\ \A f \in flights :
                  ~SameSegment(f, lastCall'.segment, lastCall'.segmentIndex)
                      => f \in flights'
            /\ \A f \in flights' :
                  ~SameSegment(f, lastCall'.segment, lastCall'.segmentIndex)
                      => f \in flights
       /\ (lastCall'.fn = "saveFlightSegment" /\ lastCall'.result = None) =>
            flights' = flights
      ]_vars

C15_Witness ==
    /\ lastCall.fn = "saveFlightSegment"
    /\ lastCall.result = 3
    /\ Cardinality(flights) = 2
    /\ \E f \in flights : f.id = 1
    /\ lastCall.segment.origin = "JFK"

-----------------------------------------------------------------------------
(* Properties of the tables under the Next.js gateway *)

\* C14: a snapshot that is the latest of a segment stays stored and attached
\* to the flights row of that segment through every later fetch, and when a
\* later snapshot of the segment is written the previous-snapshot query of
\* the engine for it returns that snapshot.
C14_AppendOnlyHistory ==
    [][\A f \in flights :
          LET before == LatestSnapshotOf(snapshots, f.id)
          IN  before.id # None =>
                \E g \in flights' :
                    /\ g.flight_number = f.flight_number
                    /\ g.flight_date = f.flight_date
                    /\ g.segment_index = f.segment_index
                    /\ \E w \in snapshots' : w.id = before.id /\ w.flight_id = g.id
                    /\ \A w \in snapshots' \ snapshots :
                          (w.flight_id = g.id /\ w.snapshot_time > before.snapshot_time)
                          => previousSnapshotBefore(snapshots', g.id,
                                                    w.snapshot_time).id = before.id
      ]_vars

\* C21: processWaitlistSnapshot returns a map whose keys are exactly the
\* passengers of the current list, each once, and every one of them has the
\* tier of the hours before departure; the previous snapshot and the previous
\* statuses change nothing of the result.
C21_TierOnlyByHours ==
    lastCall.fn = "processWaitlistSnapshot" =>
        LET map == lastCall.newStatuses
            names == lastCall.waitlistNames
        IN  /\ {map[n].passenger : n \in 1..Len(map)}
                    = {names[k] : k \in 1..Len(names)}
            /\ \A m, n \in 1..Len(map) : map[m].passenger = map[n].passenger => m = n
            /\ \A n \in 1..Len(map) :
                    map[n].status = determineEliteStatus(lastCall.hours)
            /\ map = lastCall.first

\* a list with a new addition, an existing passenger who changed position
\* and previous statuses of another tier
C21_Witness ==
    /\ lastCall.fn = "processWaitlistSnapshot"
    /\ lastCall.previousSnapshot.id # None
    /\ LET diff == compareWaitlists(JSONParse(lastCall.previousSnapshot.waitlist_names),
                                    lastCall.waitlistNames)
       IN  /\ Len(diff.added) > 0
           /\ Len(diff.reordered) > 0
           /\ Len(diff.removed) > 0
    /\ \E e \in lastCall.previousStatuses :
          /\ Includes(lastCall.waitlistNames, e.passenger)
          /\ e.status # determineEliteStatus(lastCall.hours)
    /\ lastCall.hours < 48
    /\ Len(lastCall.newStatuses) > 1

\* C23: at any time at most one request is between createPage and
\* page.close of trackWaitlist.
C23_OneFetchInFlight ==
    Cardinality({i \in DOMAIN reqs : reqs[i].pageOpen}) <= 1

-----------------------------------------------------------------------------
(* The engine over fetched snapshots: the tables as successful fetches leave *)
(* them, and trackEliteStatus run after them                                 *)

EngineTickMs == 8 * HourMs

MaxEngineTicks == 2

EngineTick == Advance(EngineTickMs, MaxEngineTicks)

\* the save loop of a fetch of flightNumber whose page shows content
SaveFetched(flightNumber, content) ==
    LET st == TrackSaveAll(Store, flightNumber, content, 1, clock)
    IN  /\ isDbAvailable
        /\ Len(content) > 0
        /\ st.nextFlightId <= MaxSaves + 1
        /\ flights' = st.flights
        /\ snapshots' = st.snapshots
        /\ nextFlightId' = st.nextFlightId
        /\ nextSnapshotId' = st.nextSnapshotId
        /\ lastCall' = [fn |-> "trackWaitlist", threw |-> FALSE, at |-> clock]
        /\ UNCHANGED <<clock, tzOffset, database, sessionVars, sched, chal, lastScrapeTime, limiterCalls, isDbAvailable,
                       reqVars, eliteStatus>>

CallTrackEliteStatus ==
    LET run == trackEliteStatus(isDbAvailable, flights, snapshots, eliteStatus,
                                clock, tzOffset)
    IN  /\ eliteStatus' = run.elite
        /\ lastCall' = [fn |-> "trackEliteStatus", threw |-> run.threw, at |-> clock,
                        before |-> eliteStatus]
        /\ UNCHANGED <<clock, tzOffset, database, sessionVars, sched, chal, lastScrapeTime, limiterCalls, storeVars,
                       reqVars>>

NextEngine ==
    \/ EngineTick
    \/ InitDb
    \/ \E n \in FlightNumbers, content \in Contents : SaveFetched(n, content)
    \/ CallTrackEliteStatus

SpecEngine == Init /\ [][NextEngine]_vars

\* C37: every row of waitlist_snapshots has a flight_id that is the id of a
\* row of flights.
C37_ReferentialIntegrity ==
    \A w \in snapshots : \E f \in flights : f.id = w.flight_id

\* the passenger list a run at this moment reads for a flight number: the
\* latest snapshot of its first segment
RunNames(frows, snaps, flightNumber) ==
    LET latest == getLatestWaitlistData(TRUE, frows, snaps, flightNumber, FlightDate)
    IN  IF Len(latest) = 0 \/ latest[1].waitlist_names = JSONNull THEN << >>
        ELSE JSONParse(latest[1].waitlist_names)

\* the tier a run at this moment computes for a flight number
RunTier(frows, flightNumber, now, tz) ==
    LET window == WindowFlights(frows, flightNumber, now)
        flight == CHOOSE f \in window : TRUE
    IN  IF window = {} THEN "none"
        ELSE determineEliteStatus(
                 calculateHoursBeforeDeparture(flight.departure_time, flight.flight_date,
                                               flight.origin, now, tz))

\* C16: elite_status has at most one row per (passenger, flight_number,
\* flight_date); a run that completes leaves, for every passenger of the
\* snapshot it read for a flight, the row with the tier it computed, and
\* leaves every other row as it was; nothing but a run changes the table.
C16_StatusLastWriteWins ==
    [][/\ \A d, e \in eliteStatus' :
            SameStatusKey(d, e.passenger, e.flight_number, e.flight_date) => d = e
       /\ (/\ lastCall'.fn = "trackEliteStatus"
           /\ ~lastCall'.threw
           /\ isDbAvailable
           /\ UNCHANGED <<clock, storeVars>>) =>
            LET Read(n) == IF RunTier(flights, n, clock, tzOffset) = "none" THEN << >>
                           ELSE RunNames(flights, snapshots, n)
            IN  /\ \A n \in FlightNumbers :
                      \A k \in 1..Len(Read(n)) :
                          StatusRow(Read(n)[k], RunTier(flights, n, clock, tzOffset),
                                    n, FlightDate) \in eliteStatus'
                /\ \A e \in eliteStatus \cup eliteStatus' :
                      ~Includes(Read(e.flight_number), e.passenger)
                          => (e \in eliteStatus /\ e \in eliteStatus')
       /\ (lastCall'.fn # "trackEliteStatus" \/ ~UNCHANGED <<clock, storeVars>>)
             => eliteStatus' = eliteStatus
      ]_vars

\* a passenger's row was rewritten with a lower tier by a later run
C16_Witness ==
    /\ lastCall.fn = "trackEliteStatus"
    /\ ~lastCall.threw
    /\ lastCall.at > ClockStartMs
    /\ \E e \in eliteStatus :
          /\ e.status = "MVP"
          /\ determineEliteStatus(
                 calculateHoursBeforeDeparture(PageDepartureTime, FlightDate, PageOrigin,
                                               ClockStartMs, tzOffset)) = "MVP_GOLD"
          /\ \E w \in snapshots :
                /\ w.snapshot_time <= ClockStartMs
                /\ Includes(JSONParse(w.waitlist_names), e.passenger)
    /\ \E e \in eliteStatus : e.flight_number = "200"

\* the tiers in the order in which the windows before departure open
TierRank(status) ==
    IF status = "MVP_GOLD_75K" THEN 3 ELSE IF status = "MVP_GOLD" THEN 2 ELSE 1

-----------------------------------------------------------------------------
(* The session manager with single-flight launch (auth-utils.ts:542-763)    *)
(* under the fetches of trackWaitlist (part_006:136-285)                    *)

MAX_RETRIES == 3

\* trackWaitlist line 148: const maxRetries = 3 of the navigation loop
NavMaxRetries == 3

\* browserInstance?.isConnected()
isConnected(bs, b) == b # None /\ bs[b] = "alive"

\* getBrowser line 699: if (browserInitPromise) return browserInitPromise
JoinsInit_never(promise) == FALSE

JoinsInit(promise) == promise # None

\* the process of browser b ends: its pages are gone with it
CloseBrowser(bs, b) == [bs EXCEPT ![b] = "closed"]

ClosePagesOf(ps, b) ==
    [p \in 1..Len(ps) |-> IF ps[p].browser = b THEN [ps[p] EXCEPT !.open = FALSE]
                          ELSE ps[p]]

\* page.close().catch(...)
ClosePage(ps, p) == IF p = None THEN ps ELSE [ps EXCEPT ![p].open = FALSE]

\* the 'disconnected' handler of lines 667-673, for browser b
OnDisconnected(value, instance, hs, b) ==
    IF hs[b] = "registered" /\ instance = b THEN None ELSE value

\* trackWaitlist line 139: page = await createPage()
CreatePage(c) ==
    /\ fetches[c].pc = "idle"
    /\ fetches' = [fetches EXCEPT ![c].pc = "getBrowser"]
    /\ UNCHANGED <<clock, tzOffset, database, lastScrapeTime, limiterCalls, storeVars, reqVars,
                   eliteStatus, lastCall, browserInstance, browserInitPromise,
                   connectionRetries, browsers, inits, handlers, pages, sched, chal>>

\* getBrowser, and initBrowser up to its first await
GetBrowser(c) ==
    /\ fetches[c].pc = "getBrowser"
    /\ IF isConnected(browsers, browserInstance)
       THEN /\ fetches' = [fetches EXCEPT ![c].pc = "newPage",
                                          ![c].awaiting = None,
                                          ![c].browser = browserInstance]
            /\ UNCHANGED <<browserInitPromise, inits>>
       ELSE IF JoinsInit(browserInitPromise)
       THEN /\ fetches' = [fetches EXCEPT ![c].pc = "awaitInit",
                                          ![c].awaiting = browserInitPromise]
            /\ UNCHANGED <<browserInitPromise, inits>>
       ELSE /\ Len(inits) < MaxInits
            /\ inits' = Append(inits,
                   [pc |-> IF browserInstance # None THEN "closing" ELSE "launch",
                    retryCount |-> 0, browser |-> None, by |-> "getBrowser",
                    delay |-> 0])
            /\ browserInitPromise' = Len(inits) + 1
            /\ fetches' = [fetches EXCEPT ![c].pc = "awaitInit",
                                          ![c].awaiting = Len(inits) + 1,
                                          ![c].started = @ \cup {Len(inits) + 1}]
    /\ UNCHANGED <<clock, tzOffset, database, lastScrapeTime, limiterCalls, storeVars, reqVars,
                   eliteStatus, lastCall, browserInstance, connectionRetries,
                   browsers, handlers, pages, sched, chal>>

\* setTimeout(r, 1000 * retryCount) of line 687, after retryCount++
LaunchRetryDelay(retryCount) == 1000 * retryCount

\* initBrowser lines 677-688: the catch block of an attempt, and the finally
\* of getBrowser when the run gives up
InitRetry(run) ==
    IF run.retryCount + 1 = MAX_RETRIES
    THEN [run EXCEPT !.pc = "rejected", !.retryCount = MAX_RETRIES, !.browser = None]
    ELSE [run EXCEPT !.pc = "launch", !.retryCount = run.retryCount + 1,
                     !.browser = None,
                     !.delay = LaunchRetryDelay(run.retryCount + 1)]

\* initBrowser lines 606-650: the existing instance is closed, then
\* puppeteer.launch either gives a browser or throws
InitBrowserLaunch(r) ==
    /\ r \in DOMAIN inits
    /\ inits[r].pc \in {"closing", "launch"}
    /\ LET old == browserInstance
           closing == inits[r].pc = "closing" /\ old # None
           bs == IF closing THEN CloseBrowser(browsers, old) ELSE browsers
           instance == IF inits[r].pc = "closing" THEN None ELSE browserInstance
           promise == IF closing
                      THEN OnDisconnected(browserInitPromise, old, handlers, old)
                      ELSE browserInitPromise
       IN  /\ pages' = IF closing THEN ClosePagesOf(pages, old) ELSE pages
           /\ browserInstance' = instance
           /\ \/ /\ Len(bs) < MaxLaunches
                 /\ browsers' = Append(bs, "alive")
                 /\ handlers' = Append(handlers, "none")
                 /\ inits' = [inits EXCEPT ![r].pc = "test",
                                           ![r].browser = Len(bs) + 1]
                 /\ browserInitPromise' = promise
              \/ /\ browsers' = bs
                 /\ handlers' = handlers
                 /\ inits' = [inits EXCEPT ![r] = InitRetry(inits[r])]
                 /\ browserInitPromise' =
                        IF InitRetry(inits[r]).pc = "rejected" THEN None ELSE promise
    /\ UNCHANGED <<clock, tzOffset, database, lastScrapeTime, limiterCalls, storeVars, reqVars,
                   eliteStatus, lastCall, connectionRetries, fetches, sched, chal>>

\* initBrowser lines 651-676: the test of the connection; on success the
\* handler is registered, browserInstance is set and the promise settles
InitBrowserTest(r) ==
    /\ r \in DOMAIN inits
    /\ inits[r].pc = "test"
    /\ LET b == inits[r].browser
       IN  \/ /\ browsers[b] = "alive"
              /\ handlers' = [handlers EXCEPT ![b] = "registered"]
              /\ browserInstance' = b
              /\ browserInitPromise' = None
              /\ inits' = [inits EXCEPT ![r].pc = "resolved"]
              /\ UNCHANGED <<browsers, pages>>
           \/ /\ browsers' = CloseBrowser(browsers, b)
              /\ pages' = ClosePagesOf(pages, b)
              /\ inits' = [inits EXCEPT ![r] = InitRetry(inits[r])]
              /\ browserInitPromise' =
                     IF InitRetry(inits[r]).pc = "rejected" THEN None
                     ELSE browserInitPromise
              /\ UNCHANGED <<browserInstance, handlers>>
    /\ UNCHANGED <<clock, tzOffset, database, lastScrapeTime, limiterCalls, storeVars, reqVars,
                   eliteStatus, lastCall, connectionRetries, fetches, sched, chal>>

\* the browser process of b ends on its own and puppeteer emits
\* 'disconnected'
Disconnected(b) ==
    /\ b \in DOMAIN browsers
    /\ browsers[b] = "alive"
    /\ browsers' = CloseBrowser(browsers, b)
    /\ pages' = ClosePagesOf(pages, b)
    /\ browserInstance' = OnDisconnected(browserInstance, browserInstance, handlers, b)
    /\ browserInitPromise' = OnDisconnected(browserInitPromise, browserInstance,
                                            handlers, b)
    /\ UNCHANGED <<clock, tzOffset, database, lastScrapeTime, limiterCalls, storeVars, reqVars,
                   eliteStatus, lastCall, connectionRetries, inits, handlers,
                   fetches, sched, chal>>

\* the finally block of trackWaitlist, lines 278-284
Returned(f) == [f EXCEPT !.pc = "returned"]

\* createPage lines 749-759: the catch block of an attempt; the last throw
\* reaches the catch and the finally of trackWaitlist
CreatePageRetry(f) ==
    IF f.retryCount + 1 = MAX_RETRIES
    THEN Returned([f EXCEPT !.retryCount = MAX_RETRIES])
    ELSE [f EXCEPT !.pc = "getBrowser", !.retryCount = f.retryCount + 1]

\* what the finally block closes
Finally(ps, f) == IF f.pc = "returned" THEN ClosePage(ps, f.page) ELSE ps

\* createPage line 717: the awaited promise of initBrowser settles
AwaitInit(c) ==
    /\ fetches[c].pc = "awaitInit"
    /\ LET run == inits[fetches[c].awaiting]
           f == fetches[c]
       IN  /\ run.pc \in {"resolved", "rejected"}
           /\ LET g == IF run.pc = "resolved"
                       THEN [f EXCEPT !.pc = "newPage", !.browser = run.browser]
                       ELSE CreatePageRetry(f)
              IN  /\ fetches' = [fetches EXCEPT ![c] = g]
                  /\ pages' = Finally(pages, g)
    /\ UNCHANGED <<clock, tzOffset, database, lastScrapeTime, limiterCalls, storeVars, reqVars,
                   eliteStatus, lastCall, browserInstance, browserInitPromise,
                   connectionRetries, browsers, inits, handlers, sched, chal>>

\* createPage line 718: const page = await browser.newPage()
NewPage(c) ==
    /\ fetches[c].pc = "newPage"
    /\ LET f == fetches[c]
       IN  \/ /\ browsers[f.browser] = "alive"
              /\ Len(pages) < MaxPages
              /\ pages' = Append(pages, [browser |-> f.browser, owner |-> c,
                                         open |-> TRUE])
              /\ fetches' = [fetches EXCEPT ![c].pc = "setup",
                                            ![c].attempt = Len(pages) + 1]
           \/ /\ browsers[f.browser] # "alive"
              /\ fetches' = [fetches EXCEPT ![c] = CreatePageRetry(f)]
              /\ pages' = Finally(pages, CreatePageRetry(f))
    /\ UNCHANGED <<clock, tzOffset, database, lastScrapeTime, limiterCalls, storeVars, reqVars,
                   eliteStatus, lastCall, browserInstance, browserInitPromise,
                   connectionRetries, browsers, inits, handlers, sched, chal>>

\* trackWaitlist lines 174-184: the replacement page arrived inside the catch
\* block of a navigation attempt
AfterReplace(f) ==
    IF f.navRetry + 1 = NavMaxRetries
    THEN Returned([f EXCEPT !.navRetry = NavMaxRetries, !.replacing = FALSE])
    ELSE [f EXCEPT !.pc = "navigate", !.navRetry = f.navRetry + 1,
                   !.replacing = FALSE]

\* createPage lines 721-748: viewport, user agent, interception and the test
\* evaluate; the page of a failed attempt is left as it is
SetupPage(c) ==
    /\ fetches[c].pc = "setup"
    /\ LET f == fetches[c]
           got == [f EXCEPT !.page = f.attempt, !.attempt = None]
       IN  \/ /\ pages[f.attempt].open
              /\ LET g == IF f.replacing THEN AfterReplace(got)
                          ELSE [got EXCEPT !.pc = "navigate"]
                 IN  /\ fetches' = [fetches EXCEPT ![c] = g]
                     /\ pages' = Finally(pages, g)
           \/ /\ fetches' = [fetches EXCEPT ![c] = CreatePageRetry(f)]
              /\ pages' = Finally(pages, CreatePageRetry(f))
    /\ UNCHANGED <<clock, tzOffset, database, lastScrapeTime, limiterCalls, storeVars, reqVars,
                   eliteStatus, lastCall, browserInstance, browserInitPromise,
                   connectionRetries, browsers, inits, handlers, sched, chal>>

\* a catch block that starts the next attempt without counting it
NavigationRetry_uncounted(f) == f

\* trackWaitlist lines 178-184: retryCount++, the throw of lastError after
\* the last attempt, else the next attempt
NavigationRetry(f) ==
    IF f.navRetry + 1 = NavMaxRetries
    THEN Returned([f EXCEPT !.navRetry = NavMaxRetries])
    ELSE [f EXCEPT !.navRetry = f.navRetry + 1]

\* trackWaitlist lines 151-185: one attempt of the navigation loop, whose
\* page.goto returns, rejects or times out
Navigate(c) ==
    /\ fetches[c].pc = "navigate"
    /\ LET f == [fetches[c] EXCEPT !.gotos = fetches[c].gotos + 1]
           b == pages[f.page].browser
       IN  \/ /\ pages[f.page].open
              /\ fetches' = [fetches EXCEPT ![c] = [f EXCEPT !.pc = "extract"]]
              /\ pages' = pages
           \/ IF ~isConnected(browsers, b)
              THEN /\ fetches' = [fetches EXCEPT ![c] =
                                     [f EXCEPT !.pc = "getBrowser", !.retryCount = 0,
                                               !.started = {}, !.replacing = TRUE]]
                   /\ pages' = ClosePage(pages, f.page)
              ELSE LET g == NavigationRetry(f)
                   IN  /\ fetches' = [fetches EXCEPT ![c] = g]
                       /\ pages' = Finally(pages, g)
    /\ UNCHANGED <<clock, tzOffset, database, lastScrapeTime, limiterCalls, storeVars, reqVars,
                   eliteStatus, lastCall, browserInstance, browserInitPromise,
                   connectionRetries, browsers, inits, handlers, sched, chal>>

\* trackWaitlist lines 187-284: verification, extraction and the save of the
\* segments, then page.close() in the finally block
FetchReturn(c) ==
    /\ fetches[c].pc = "extract"
    /\ fetches' = [fetches EXCEPT ![c] = Returned(fetches[c])]
    /\ pages' = ClosePage(pages, fetches[c].page)
    /\ UNCHANGED <<clock, tzOffset, database, lastScrapeTime, limiterCalls, storeVars, reqVars,
                   eliteStatus, lastCall, browserInstance, browserInitPromise,
                   connectionRetries, browsers, inits, handlers, sched, chal>>

NextSession ==
    \/ \E c \in 1..MaxFetches : CreatePage(c)
    \/ \E c \in 1..MaxFetches : GetBrowser(c)
    \/ \E r \in 1..MaxInits : InitBrowserLaunch(r)
    \/ \E r \in 1..MaxInits : InitBrowserTest(r)
    \/ \E b \in 1..MaxLaunches : Disconnected(b)
    \/ \E c \in 1..MaxFetches : AwaitInit(c)
    \/ \E c \in 1..MaxFetches : NewPage(c)
    \/ \E c \in 1..MaxFetches : SetupPage(c)
    \/ \E c \in 1..MaxFetches : Navigate(c)
    \/ \E c \in 1..MaxFetches : FetchReturn(c)

InitSession == Init /\ tzOffset = 0

SpecSession == InitSession /\ [][NextSession]_vars

Alive == {b \in DOMAIN browsers : browsers[b] = "alive"}

InProgress == {r \in DOMAIN inits : inits[r].pc \in {"closing", "launch", "test"}}

\* C25: the launch is single-flight.  At most one run of initBrowser is in
\* progress at any time and it is the one browserInitPromise holds, so that a
\* caller of getBrowser that finds no connected browser joins it; a caller
\* that waited for a run goes on with the browser of that run.
C25_SingleFlightLaunch ==
    /\ Cardinality(InProgress) <= 1
    /\ \A r \in InProgress : browserInitPromise = r
    /\ \A c \in 1..MaxFetches :
          LET f == fetches[c]
          IN  (f.pc = "newPage" /\ f.awaiting # None)
                 => /\ inits[f.awaiting].pc = "resolved"
                    /\ f.browser = inits[f.awaiting].browser

\* two callers waited for the same run and both got its browser
C25_Witness ==
    /\ fetches[1].awaiting # None
    /\ fetches[1].awaiting = fetches[2].awaiting
    /\ fetches[1].pc = "newPage"
    /\ fetches[2].pc = "newPage"
    /\ fetches[1].browser = inits[fetches[1].awaiting].browser
    /\ fetches[2].browser = fetches[1].browser
    /\ Len(inits) = 1

\* C26: when a fetch has returned, every page opened for it is closed.
C26_NoPageLeftOpen ==
    \A c \in 1..MaxFetches :
        fetches[c].pc = "returned" =>
            \A p \in DOMAIN pages : pages[p].owner = c => ~pages[p].open

\* a measure of what a call of trackWaitlist has left to do, ordered by the
\* navigation attempts left, then the createPage attempts left, then the
\* position inside createPage
FetchRank(f) ==
    IF f.pc = "returned" THEN 0
    ELSE IF f.pc = "extract" THEN 1
    ELSE LET phase == IF f.pc = "navigate" THEN 1 ELSE IF f.replacing THEN 0 ELSE 2
             step == IF f.pc = "getBrowser" THEN 3
                     ELSE IF f.pc = "awaitInit" THEN 2
                     ELSE IF f.pc = "newPage" THEN 1 ELSE 0
         IN  2 + (((NavMaxRetries - f.navRetry) * 3 + phase) * (MAX_RETRIES + 1)
                     + (MAX_RETRIES - f.retryCount)) * 4 + step

\* the same for a run of initBrowser
RunRank(run) ==
    (MAX_RETRIES - run.retryCount) * 3
        + (IF run.pc \in {"closing", "launch"} THEN 2 ELSE IF run.pc = "test" THEN 1 ELSE 0)

\* C33: a call of trackWaitlist calls page.goto at most 3 times, and every
\* step of the call or of a run of initBrowser lowers a measure that is
\* never negative, so the call returns after a bounded number of steps.
C33_BoundedRetries ==
    [][/\ \A c \in 1..MaxFetches :
            /\ fetches'[c].gotos <= NavMaxRetries
            /\ (fetches[c].pc # "idle" /\ fetches'[c] # fetches[c])
                  => /\ FetchRank(fetches'[c]) < FetchRank(fetches[c])
                     /\ FetchRank(fetches'[c]) >= 0
       /\ \A r \in DOMAIN inits :
            inits'[r] # inits[r] => /\ RunRank(inits'[r]) < RunRank(inits[r])
                                    /\ RunRank(inits'[r]) >= 0]_vars

\* a call that returned after its third navigation attempt failed
C33_Witness ==
    \E c \in 1..MaxFetches :
        /\ fetches[c].pc = "returned"
        /\ fetches[c].gotos = NavMaxRetries
        /\ fetches[c].navRetry = NavMaxRetries

\* the calls of puppeteer.launch a run of initBrowser has made: one per
\* attempt of its loop (auth-utils.ts:623-688)
LaunchAttempts(run) ==
    run.retryCount + (IF run.pc \in {"test", "resolved"} THEN 1 ELSE 0)

RECURSIVE LaunchesOf(_, _)
LaunchesOf(rs, runs) ==
    IF runs = {} THEN 0
    ELSE LET r == CHOOSE x \in runs : TRUE
         IN  LaunchAttempts(rs[r]) + LaunchesOf(rs, runs \ {r})

\* C31: the runs of initBrowser started by one createPage call make at most
\* MAX_RETRIES = 3 calls of puppeteer.launch in total.
C31_AtMostThreeLaunches ==
    \A c \in 1..MaxFetches : LaunchesOf(inits, fetches[c].started) <= MAX_RETRIES

-----------------------------------------------------------------------------
(* The session manager that reconnects by itself (browser-utils.ts:68-211)  *)

WS_ENDPOINT_RETRIES == 3

\* initBrowser up to its first await: a run that finds an instance closes it
BuNewRun(instance, by) ==
    [pc |-> IF instance # None THEN "closing" ELSE "launch",
     old |-> instance, wsEndpointRetries |-> WS_ENDPOINT_RETRIES,
     browser |-> None, by |-> by, consumed |-> FALSE, delay |-> 0]

\* the 'disconnected' handler of browser b up to its first await (lines
\* 123-127) or, when b is not the instance, up to the setTimeout of line 138
BuOnDisconnected(hs, instance, b) ==
    IF hs[b] # "registered" THEN hs
    ELSE [hs EXCEPT ![b] = IF instance = b THEN "cleanup" ELSE "timer"]

\* createPage line 193: const browser = await getBrowser()
BuCreatePage(c) ==
    /\ fetches[c].pc = "idle"
    /\ fetches' = [fetches EXCEPT ![c].pc = "getBrowser"]
    /\ UNCHANGED <<clock, tzOffset, database, lastScrapeTime, limiterCalls, storeVars, reqVars,
                   eliteStatus, lastCall, browserInstance, browserInitPromise,
                   connectionRetries, browsers, inits, handlers, pages, sched, chal>>

\* getBrowser lines 185-190
BuGetBrowser(c) ==
    /\ fetches[c].pc = "getBrowser"
    /\ IF browserInstance = None \/ ~isConnected(browsers, browserInstance)
       THEN /\ Len(inits) < MaxInits
            /\ inits' = Append(inits, BuNewRun(browserInstance, "getBrowser"))
            /\ fetches' = [fetches EXCEPT ![c].pc = "awaitInit",
                                          ![c].awaiting = Len(inits) + 1]
       ELSE /\ fetches' = [fetches EXCEPT ![c].pc = "newPage",
                                          ![c].browser = browserInstance]
            /\ inits' = inits
    /\ UNCHANGED <<clock, tzOffset, database, lastScrapeTime, limiterCalls, storeVars, reqVars,
                   eliteStatus, lastCall, browserInstance, browserInitPromise,
                   connectionRetries, browsers, handlers, pages, sched, chal>>

\* initBrowser lines 70-77: await browserInstance.close(), during which the
\* closed browser emits 'disconnected', then browserInstance = null
BuInitBrowserClose(r) ==
    /\ r \in DOMAIN inits
    /\ inits[r].pc = "closing"
    /\ LET old == inits[r].old
       IN  /\ browsers' = CloseBrowser(browsers, old)
           /\ pages' = ClosePagesOf(pages, old)
           /\ handlers' = IF browsers[old] = "alive"
                          THEN BuOnDisconnected(handlers, browserInstance, old)
                          ELSE handlers
           /\ browserInstance' = None
           /\ inits' = [inits EXCEPT ![r].pc = "launch"]
    /\ UNCHANGED <<clock, tzOffset, database, lastScrapeTime, limiterCalls, storeVars, reqVars,
                   eliteStatus, lastCall, browserInitPromise, connectionRetries,
                   fetches, sched, chal>>

RECURSIVE Pow(_, _)
Pow(base, n) == IF n = 0 THEN 1 ELSE base * Pow(base, n - 1)

\* Math.min(1000 * Math.pow(2, WS_ENDPOINT_RETRIES - wsEndpointRetries),
\* 10000) of line 173, after wsEndpointRetries--
BuLaunchRetryDelay(wsEndpointRetries) ==
    Min(1000 * Pow(2, WS_ENDPOINT_RETRIES - wsEndpointRetries), 10000)

\* initBrowser lines 160-175: the catch block of an attempt
BuInitRetry(run) ==
    IF run.wsEndpointRetries - 1 = 0
    THEN [run EXCEPT !.pc = "rejected", !.wsEndpointRetries = 0, !.browser = None]
    ELSE [run EXCEPT !.pc = "launch", !.browser = None,
                     !.wsEndpointRetries = run.wsEndpointRetries - 1,
                     !.delay = BuLaunchRetryDelay(run.wsEndpointRetries - 1)]

\* initBrowser lines 91-106: puppeteer.launch gives a browser or throws
BuInitBrowserLaunch(r) ==
    /\ r \in DOMAIN inits
    /\ inits[r].pc = "launch"
    /\ \/ /\ Len(browsers) < MaxLaunches
          /\ browsers' = Append(browsers, "alive")
          /\ handlers' = Append(handlers, "none")
          /\ inits' = [inits EXCEPT ![r].pc = "test",
                                    ![r].browser = Len(browsers) + 1]
       \/ /\ inits' = [inits EXCEPT ![r] = BuInitRetry(inits[r])]
          /\ UNCHANGED <<browsers, handlers>>
    /\ UNCHANGED <<clock, tzOffset, database, lastScrapeTime, limiterCalls, storeVars, reqVars,
                   eliteStatus, lastCall, browserInstance, browserInitPromise,
                   connectionRetries, pages, fetches, sched, chal>>

\* initBrowser lines 108-159: the test of the connection, the handler,
\* browserInstance = browser; or the catch block closes the browser
BuInitBrowserTest(r) ==
    /\ r \in DOMAIN inits
    /\ inits[r].pc = "test"
    /\ LET b == inits[r].browser
       IN  \/ /\ browsers[b] = "alive"
              /\ handlers' = [handlers EXCEPT ![b] = "registered"]
              /\ browserInstance' = b
              /\ inits' = [inits EXCEPT ![r].pc = "resolved"]
              /\ UNCHANGED <<browsers, pages>>
           \/ /\ browsers' = CloseBrowser(browsers, b)
              /\ pages' = ClosePagesOf(pages, b)
              /\ inits' = [inits EXCEPT ![r] = BuInitRetry(inits[r])]
              /\ UNCHANGED <<browserInstance, handlers>>
    /\ UNCHANGED <<clock, tzOffset, database, lastScrapeTime, limiterCalls, storeVars, reqVars,
                   eliteStatus, lastCall, browserInitPromise, connectionRetries,
                   fetches, sched, chal>>

\* getBrowser line 187: browserInstance = await initBrowser(); line 189
BuAwaitInit(c) ==
    /\ fetches[c].pc = "awaitInit"
    /\ LET run == inits[fetches[c].awaiting]
       IN  /\ run.pc \in {"resolved", "rejected"}
           /\ IF run.pc = "resolved"
              THEN /\ browserInstance' = run.browser
                   /\ fetches' = [fetches EXCEPT ![c].pc = "newPage",
                                                 ![c].browser = run.browser]
              ELSE /\ browserInstance' = browserInstance
                   /\ fetches' = [fetches EXCEPT ![c].pc = "returned"]
    /\ UNCHANGED <<clock, tzOffset, database, lastScrapeTime, limiterCalls, storeVars, reqVars,
                   eliteStatus, lastCall, browserInitPromise, connectionRetries,
                   browsers, inits, handlers, pages, sched, chal>>

\* the browser process of b ends on its own and puppeteer emits
\* 'disconnected'
BuDisconnected(b) ==
    /\ b \in DOMAIN browsers
    /\ browsers[b] = "alive"
    /\ browsers' = CloseBrowser(browsers, b)
    /\ pages' = ClosePagesOf(pages, b)
    /\ handlers' = BuOnDisconnected(handlers, browserInstance, b)
    /\ UNCHANGED <<clock, tzOffset, database, lastScrapeTime, limiterCalls, storeVars, reqVars,
                   eliteStatus, lastCall, browserInstance, browserInitPromise,
                   connectionRetries, inits, fetches, sched, chal>>

\* the handler after its awaits, lines 127-138: browserInstance = null and
\* the timer of 5 s
BuHandlerCleanup(b) ==
    /\ b \in DOMAIN handlers
    /\ handlers[b] = "cleanup"
    /\ browserInstance' = None
    /\ handlers' = [handlers EXCEPT ![b] = "timer"]
    /\ UNCHANGED <<clock, tzOffset, database, lastScrapeTime, limiterCalls, storeVars, reqVars,
                   eliteStatus, lastCall, browserInitPromise, connectionRetries,
                   browsers, inits, pages, fetches, sched, chal>>

\* the timer callback, lines 138-143 and 151-154
BuReconnectTimeout(b) ==
    /\ b \in DOMAIN handlers
    /\ handlers[b] = "timer"
    /\ handlers' = [handlers EXCEPT ![b] = "fired"]
    /\ IF connectionRetries < MAX_RETRIES
       THEN /\ Len(inits) < MaxInits
            /\ connectionRetries' = connectionRetries + 1
            /\ inits' = Append(inits, BuNewRun(browserInstance, "timer"))
       ELSE /\ connectionRetries' = 0
            /\ inits' = inits
    /\ UNCHANGED <<clock, tzOffset, database, lastScrapeTime, limiterCalls, storeVars, reqVars,
                   eliteStatus, lastCall, browserInstance, browserInitPromise,
                   browsers, pages, fetches, sched, chal>>

\* the timer callback after its await, lines 143-150
BuReconnected(r) ==
    /\ r \in DOMAIN inits
    /\ inits[r].by = "timer"
    /\ ~inits[r].consumed
    /\ inits[r].pc \in {"resolved", "rejected"}
    /\ inits' = [inits EXCEPT ![r].consumed = TRUE]
    /\ IF inits[r].pc = "resolved"
       THEN /\ browserInstance' = inits[r].browser
            /\ connectionRetries' = 0
       ELSE UNCHANGED <<browserInstance, connectionRetries>>
    /\ UNCHANGED <<clock, tzOffset, database, lastScrapeTime, limiterCalls, storeVars, reqVars,
                   eliteStatus, lastCall, browserInitPromise, browsers, handlers,
                   pages, fetches, sched, chal>>

\* createPage lines 194-210: the page of the caller
BuNewPage(c) ==
    /\ fetches[c].pc = "newPage"
    /\ fetches' = [fetches EXCEPT ![c].pc = "returned"]
    /\ UNCHANGED <<clock, tzOffset, database, lastScrapeTime, limiterCalls, storeVars, reqVars,
                   eliteStatus, lastCall, browserInstance, browserInitPromise,
                   connectionRetries, browsers, inits, handlers, pages, sched, chal>>

NextReconnect ==
    \/ \E c \in 1..MaxFetches : BuCreatePage(c)
    \/ \E c \in 1..MaxFetches : BuGetBrowser(c)
    \/ \E r \in 1..MaxInits : BuInitBrowserClose(r)
    \/ \E r \in 1..MaxInits : BuInitBrowserLaunch(r)
    \/ \E r \in 1..MaxInits : BuInitBrowserTest(r)
    \/ \E c \in 1..MaxFetches : BuAwaitInit(c)
    \/ \E b \in 1..MaxLaunches : BuDisconnected(b)
    \/ \E b \in 1..MaxLaunches : BuHandlerCleanup(b)
    \/ \E b \in 1..MaxLaunches : BuReconnectTimeout(b)
    \/ \E r \in 1..MaxInits : BuReconnected(r)
    \/ \E c \in 1..MaxFetches : BuNewPage(c)

SpecReconnect == InitSession /\ [][NextReconnect]_vars

\* C24: at every moment at most one browser launched by the session manager
\* is alive.
C24_OneBrowserAlive == Cardinality(Alive) <= 1

\* the delay the spec gives for launch retry n
BackoffMs(n) == Min(1000 * Pow(2, n - 1), 10000)

\* C32: a run of initBrowser that waits before its launch retry n waits
\* min(1000 ms * 2^(n-1), 10000 ms).
C32_ExponentialBackoff ==
    \A r \in DOMAIN inits :
        LET n == WS_ENDPOINT_RETRIES - inits[r].wsEndpointRetries
        IN  (inits[r].pc = "launch" /\ n >= 1) => inits[r].delay = BackoffMs(n)

\* C27: no run of initBrowser is started by the disconnect handler: every
\* run is started by a call of getBrowser.
C27_LaunchOnlyOnDemand ==
    \A r \in DOMAIN inits : inits[r].by = "getBrowser"

-----------------------------------------------------------------------------
(* The snapshot scheduler (part_004:6-74) over the tables that fetches fill  *)

SNAPSHOT_INTERVAL == 4 * HourMs

\* SELECT DISTINCT flight_number, flight_date FROM flights WHERE flight_date
\* BETWEEN today AND the day two days from now ORDER BY flight_date,
\* flight_number; db.db?.all(...) || [] without a database
Enumerate(avail, frows, now) ==
    IF ~avail THEN << >>
    ELSE SelectSeq(FlightOrder, LAMBDA n : WindowFlights(frows, n, now) # {})

\* how a call trackWaitlist(flight_number, flight_date, '', true) can end: the
\* segments were saved, the error result was returned, or the call rejected
SnapshotOutcomes == {"saved", "error", "threw"}

\* a loop without the inner try/catch: a rejection ends the run in the outer
\* catch block
AfterAttempt_abort(s, outcome) ==
    IF outcome = "threw"
    THEN [s EXCEPT !.pc = "done",
                   !.attempts = Append(s.attempts, s.flights[s.index]),
                   !.outcomes = Append(s.outcomes, outcome)]
    ELSE [s EXCEPT !.index = s.index + 1,
                   !.attempts = Append(s.attempts, s.flights[s.index]),
                   !.outcomes = Append(s.outcomes, outcome)]

\* the body of the for loop, lines 57-64: whatever the outcome, the catch
\* block only logs and the loop goes on with the next flight
AfterAttempt(s, outcome) ==
    [s EXCEPT !.index = s.index + 1,
              !.attempts = Append(s.attempts, s.flights[s.index]),
              !.outcomes = Append(s.outcomes, outcome)]

\* startSnapshotScheduler lines 15-16 and takeSnapshot lines 35-54
StartSnapshotScheduler ==
    /\ sched.pc = "idle"
    /\ sched' = [NewSched EXCEPT !.pc = "loop", !.run = 1,
                                 !.flights = Enumerate(isDbAvailable, flights, clock)]
    /\ UNCHANGED <<clock, tzOffset, database, sessionVars, chal, lastCall, eliteStatus,
                   lastScrapeTime, limiterCalls, storeVars, reqVars>>

\* the setInterval callback of lines 19-21, SNAPSHOT_INTERVAL after the last
\* run, and takeSnapshot lines 35-54
SchedulerInterval ==
    /\ sched.pc = "done"
    /\ sched.run < MaxSchedulerRuns
    /\ clock' = clock + SNAPSHOT_INTERVAL
    /\ sched' = [NewSched EXCEPT !.pc = "loop", !.run = sched.run + 1,
                                 !.flights = Enumerate(isDbAvailable, flights, clock')]
    /\ UNCHANGED <<tzOffset, database, sessionVars, chal, lastCall, eliteStatus,
                   lastScrapeTime, limiterCalls, storeVars, reqVars>>

\* takeSnapshot lines 57-64 for the flight at the position of the loop
TakeSnapshotFlight ==
    /\ sched.pc = "loop"
    /\ sched.index <= Len(sched.flights)
    /\ \E outcome \in SnapshotOutcomes :
          /\ sched' = AfterAttempt(sched, outcome)
          /\ IF outcome = "saved"
             THEN \E content \in Contents :
                     LET st == TrackSaveAll(Store, sched.flights[sched.index],
                                            content, 1, clock)
                     IN  /\ isDbAvailable
                         /\ ~NoSegments(content)
                         /\ st.nextFlightId <= MaxSaves + 1
                         /\ flights' = st.flights
                         /\ snapshots' = st.snapshots
                         /\ nextFlightId' = st.nextFlightId
                         /\ nextSnapshotId' = st.nextSnapshotId
             ELSE UNCHANGED <<flights, snapshots, nextFlightId, nextSnapshotId>>
    /\ UNCHANGED <<clock, tzOffset, database, sessionVars, chal, lastCall, eliteStatus,
                   lastScrapeTime, limiterCalls, isDbAvailable, reqVars>>

\* takeSnapshot lines 66-73: trackEliteStatus(db) after the loop; when it
\* throws, the outer catch block logs
TakeSnapshotEngine ==
    /\ sched.pc = "loop"
    /\ sched.index > Len(sched.flights)
    /\ LET run == trackEliteStatus(isDbAvailable, flights, snapshots, eliteStatus,
                                   clock, tzOffset)
       IN  eliteStatus' = run.elite
    /\ sched' = [sched EXCEPT !.pc = "done", !.engineRuns = sched.engineRuns + 1]
    /\ UNCHANGED <<clock, tzOffset, database, sessionVars, chal, lastCall, lastScrapeTime,
                   limiterCalls, storeVars, reqVars>>

NextScheduler ==
    \/ InitDb
    \/ \E n \in FlightNumbers, content \in Contents : SaveFetched(n, content)
    \/ StartSnapshotScheduler
    \/ SchedulerInterval
    \/ TakeSnapshotFlight
    \/ TakeSnapshotEngine

SpecScheduler == InitSession /\ [][NextScheduler]_vars

\* C22: in a run of takeSnapshot the flights passed to trackWaitlist so far
\* are the enumerated flights up to the position of the loop, each once and
\* in order, whatever the outcomes were; the engine has not run before the
\* end of the loop, and a finished run attempted every enumerated flight
\* and ran the engine once.
C22_BatchNotAborted ==
    /\ sched.attempts = SubSeq(sched.flights, 1, Len(sched.attempts))
    /\ Len(sched.outcomes) = Len(sched.attempts)
    /\ sched.pc = "loop" => sched.engineRuns = 0
    /\ sched.pc = "done" => /\ sched.attempts = sched.flights
                            /\ sched.engineRuns = 1

\* a finished run over two flights whose first call rejected
C22_Witness ==
    /\ sched.pc = "done"
    /\ Len(sched.flights) = 2
    /\ sched.outcomes[1] = "threw"
    /\ sched.attempts = sched.flights
    /\ sched.engineRuns = 1

-----------------------------------------------------------------------------
(* The press-and-hold handler step by step (auth-utils.ts:765-874 called by  *)
(* part_006:186-192; browser-utils.ts:213-274 called by server.js:253-285)   *)

\* what a page can show: the captcha, the denial message without captcha, the
\* waitlist container, none of them, or nothing because the page is closed
\* or crashed and its calls reject
PageKinds == {"challenge", "denied", "waitlist", "blank", "crashed"}

maxVerificationAttempts == 3

\* auth-utils.ts:765-795: the container rules the challenge out, the title
\* and the content are searched for the challenge texts and #px-captcha, and
\* the catch block returns false
needsVerification(page) == page = "challenge"

\* browser-utils.ts:213-221: !!page.$('#px-captcha'), false in the catch block
BuNeedsVerification(page) == page = "challenge"

\* if (attempt === maxRetries) return false; continue (lines 850-851, 864-865,
\* 870-871)
AttemptFailed(s) ==
    IF s.attempt = maxRetries
    THEN [s EXCEPT !.pc = "returned", !.result = FALSE, !.returnedOn = s.page]
    ELSE [s EXCEPT !.pc = "attempt", !.attempt = s.attempt + 1]

\* return true
AttemptPassed(s) ==
    [s EXCEPT !.pc = "returned", !.result = TRUE, !.returnedOn = s.page]

\* retries++; if (retries === maxRetries) return false (browser-utils.ts
\* lines 264-270)
BuAttemptFailed(s) ==
    IF s.attempt + 1 = maxRetries
    THEN [s EXCEPT !.pc = "returned", !.result = FALSE, !.returnedOn = s.page,
                   !.attempt = s.attempt + 1]
    ELSE [s EXCEPT !.pc = "buAttempt", !.attempt = s.attempt + 1]

\* the site or the browser changes what the page shows; a closed or crashed
\* page stays so
PageChanges(kind) ==
    /\ chal.pc \notin {"idle", "done"}
    /\ chal.page # "crashed"
    /\ chal.page # kind
    /\ chal' = [chal EXCEPT !.page = kind]
    /\ UNCHANGED <<clock, tzOffset, database, sessionVars, sched, lastCall, eliteStatus,
                   lastScrapeTime, limiterCalls, storeVars, reqVars>>

\* part_006:186-188 and server.js:256-265: needsVerification(page) is true
\* and the handler is called
ChallengeDetected(caller) ==
    /\ chal.pc = "idle"
    /\ chal' = [chal EXCEPT !.pc = IF caller = "next" THEN "attempt" ELSE "buAttempt",
                            !.caller = caller, !.calls = 1]
    /\ UNCHANGED <<clock, tzOffset, database, sessionVars, sched, lastCall, eliteStatus,
                   lastScrapeTime, limiterCalls, storeVars, reqVars>>

\* auth-utils.ts lines 799-831: captureVerificationProcess(page) inside the
\* try block, whose ScreenshotRecorder constructor calls fs.mkdirSync; the
\* mouse calls; the hold of 15 s, during which the interval callback of the
\* recorder catches a rejection of page.screenshot
HpAttempt ==
    /\ chal.pc = "attempt"
    /\ \E recorderOk \in BOOLEAN, screenshotOk \in BOOLEAN :
          chal' = IF ~recorderOk
                  THEN [AttemptFailed(chal) EXCEPT
                           !.lostToRecorder = chal.lostToRecorder + 1]
                  ELSE IF chal.page = "crashed"
                  THEN AttemptFailed(chal)
                  ELSE [chal EXCEPT
                           !.pc = "pressed", !.presses = chal.presses + 1,
                           !.screenshotErrors = IF screenshotOk THEN 0 ELSE 1]
    /\ UNCHANGED <<clock, tzOffset, database, sessionVars, sched, lastCall, eliteStatus,
                   lastScrapeTime, limiterCalls, storeVars, reqVars>>

\* auth-utils.ts lines 833-856: stopScreenshots(), then the title, the
\* content, #px-captcha and the container
HpCheck ==
    /\ chal.pc = "pressed"
    /\ chal' = IF chal.page \in {"crashed", "denied", "challenge"}
               THEN AttemptFailed(chal)
               ELSE IF chal.page = "waitlist"
               THEN AttemptPassed(chal)
               ELSE [chal EXCEPT !.pc = "final"]
    /\ UNCHANGED <<clock, tzOffset, database, sessionVars, sched, lastCall, eliteStatus,
                   lastScrapeTime, limiterCalls, storeVars, reqVars>>

\* auth-utils.ts lines 858-868: 2 s later needsVerification(page) decides
HpFinalCheck ==
    /\ chal.pc = "final"
    /\ chal' = IF needsVerification(chal.page)
               THEN AttemptFailed(chal)
               ELSE AttemptPassed(chal)
    /\ UNCHANGED <<clock, tzOffset, database, sessionVars, sched, lastCall, eliteStatus,
                   lastScrapeTime, limiterCalls, storeVars, reqVars>>

\* part_006:188-192: false makes trackWaitlist throw, true lets it go on
NextAfterVerification ==
    /\ chal.pc = "returned"
    /\ chal.caller = "next"
    /\ chal' = [chal EXCEPT !.pc = "done",
                            !.outcome = IF chal.result THEN "verified" ELSE "aborted"]
    /\ UNCHANGED <<clock, tzOffset, database, sessionVars, sched, lastCall, eliteStatus,
                   lastScrapeTime, limiterCalls, storeVars, reqVars>>

\* browser-utils.ts lines 225-255: without #px-captcha or its bounding box
\* the call returns false; the mouse is pressed for 16 s and released
BuHpAttempt ==
    /\ chal.pc = "buAttempt"
    /\ chal' = IF chal.page = "crashed"
               THEN BuAttemptFailed(chal)
               ELSE IF chal.page # "challenge"
               THEN [chal EXCEPT !.pc = "returned", !.result = FALSE,
                                 !.returnedOn = chal.page]
               ELSE [chal EXCEPT !.pc = "buWait", !.presses = chal.presses + 1]
    /\ UNCHANGED <<clock, tzOffset, database, sessionVars, sched, lastCall, eliteStatus,
                   lastScrapeTime, limiterCalls, storeVars, reqVars>>

\* browser-utils.ts lines 257-271: waitForFunction returns when #px-captcha
\* is gone and rejects after 8 s or on a closed page
BuHpWait ==
    /\ chal.pc = "buWait"
    /\ chal' = IF chal.page \in {"crashed", "challenge"}
               THEN BuAttemptFailed(chal)
               ELSE AttemptPassed(chal)
    /\ UNCHANGED <<clock, tzOffset, database, sessionVars, sched, lastCall, eliteStatus,
                   lastScrapeTime, limiterCalls, storeVars, reqVars>>

\* server.js lines 267-284 and the next turn of the while loop, lines
\* 256-265: after a false the handler is called again while the page still
\* needs verification
ExpressAfterVerification ==
    /\ chal.pc = "returned"
    /\ chal.caller = "express"
    /\ chal' = IF chal.result
               THEN [chal EXCEPT !.pc = "done", !.outcome = "verified"]
               ELSE IF chal.verificationAttempts + 1 = maxVerificationAttempts
               THEN [chal EXCEPT !.pc = "done", !.outcome = "aborted",
                                 !.verificationAttempts = maxVerificationAttempts]
               ELSE IF BuNeedsVerification(chal.page)
               THEN [chal EXCEPT !.pc = "buAttempt", !.attempt = 0,
                                 !.calls = chal.calls + 1,
                                 !.verificationAttempts = chal.verificationAttempts + 1]
               ELSE [chal EXCEPT !.pc = "done", !.outcome = "proceeded",
                                 !.verificationAttempts = chal.verificationAttempts + 1]
    /\ UNCHANGED <<clock, tzOffset, database, sessionVars, sched, lastCall, eliteStatus,
                   lastScrapeTime, limiterCalls, storeVars, reqVars>>

NextChallenge ==
    \/ \E caller \in {"next", "express"} : ChallengeDetected(caller)
    \/ \E kind \in PageKinds : PageChanges(kind)
    \/ HpAttempt
    \/ HpCheck
    \/ HpFinalCheck
    \/ NextAfterVerification
    \/ BuHpAttempt
    \/ BuHpWait
    \/ ExpressAfterVerification

SpecChallenge == InitSession /\ [][NextChallenge]_vars

\* C28: within one fetch request the mouse is pressed and released at most
\* maxRetries + 1 = 3 times in total, and the handler is called once.
C28_AtMostThreePresses ==
    /\ chal.presses <= maxRetries + 1
    /\ chal.calls <= 1

\* C29: when handlePressAndHoldVerification of auth-utils.ts returns true,
\* the page shows no denial message, answers its calls and shows no
\* challenge.
C29_TrueOnlyOnUsablePage ==
    (chal.caller = "next" /\ chal.pc = "returned" /\ chal.result)
        => chal.returnedOn \in {"waitlist", "blank"}

\* C30: no attempt of the handler ends because the screenshot recorder
\* threw.
C30_ScreenshotsBestEffort == chal.lostToRecorder = 0

-----------------------------------------------------------------------------
(* The two clock reads of a blocked request (part_010:46-54): canScrape and  *)
(* getTimeUntilNextScrape call Date.now() one after the other                *)

\* the two calls are consecutive statements of one synchronous stretch of
\* the handler: nothing else runs between them
NotBetweenReads == IF lastCall.fn = "POST" THEN lastCall.pc = "done" ELSE TRUE

ReadsTick == NotBetweenReads /\ Tick

\* the clock reaches the last ReadGapMs before the interval ends
EdgeTick == NotBetweenReads /\ Advance(intervalMs - ReadGapMs, 1)

ReadsRecordScrape(k) == NotBetweenReads /\ CallRecordScrape(k)

\* POST line 47: rateLimiter.canScrape(flightKey)
PostCanScrape(k) ==
    /\ NotBetweenReads
    /\ (IF lastCall.fn = "POST" THEN lastCall.posts ELSE 0) < MaxRequests
    /\ lastCall' = [fn |-> "POST", key |-> k,
                    posts |-> (IF lastCall.fn = "POST" THEN lastCall.posts ELSE 0) + 1,
                    pc |-> IF canScrape(lastScrapeTime, k, clock) THEN "done"
                           ELSE "blocked",
                    status |-> IF canScrape(lastScrapeTime, k, clock) THEN 200 ELSE 429,
                    blockedAt |-> clock, waitTimeMs |-> None]
    /\ UNCHANGED <<clock, tzOffset, database, sessionVars, sched, chal, eliteStatus,
                   lastScrapeTime, limiterCalls, storeVars, reqVars>>

\* ReadGapMs pass between the two calls
BetweenReads ==
    /\ lastCall.fn = "POST"
    /\ lastCall.pc = "blocked"
    /\ clock = lastCall.blockedAt
    /\ clock' = clock + ReadGapMs
    /\ UNCHANGED <<tzOffset, database, sessionVars, sched, chal, lastCall, eliteStatus,
                   lastScrapeTime, limiterCalls, storeVars, reqVars>>

\* POST lines 48-53: rateLimiter.getTimeUntilNextScrape(flightKey) and the
\* answer 429
PostWaitTime ==
    /\ lastCall.fn = "POST"
    /\ lastCall.pc = "blocked"
    /\ lastCall' = [lastCall EXCEPT
           !.pc = "done",
           !.waitTimeMs = getTimeUntilNextScrape(lastScrapeTime, lastCall.key, clock)]
    /\ UNCHANGED <<clock, tzOffset, database, sessionVars, sched, chal, eliteStatus,
                   lastScrapeTime, limiterCalls, storeVars, reqVars>>

NextReads ==
    \/ ReadsTick
    \/ EdgeTick
    \/ \E k \in FlightKeys : ReadsRecordScrape(k)
    \/ \E k \in FlightKeys : PostCanScrape(k)
    \/ BetweenReads
    \/ PostWaitTime

SpecReads == InitLimiter /\ [][NextReads]_vars

\* C35: at every instant canScrape(k) is true exactly when
\* getTimeUntilNextScrape(k) is 0, getTimeUntilNextScrape(k) lies between 0
\* and intervalMs, and an answer 429 carries a wait time greater than 0, as
\* the block decision was.
C35_WaitMatchesDecision ==
    /\ \A k \in FlightKeys :
          /\ canScrape(lastScrapeTime, k, clock)
                <=> getTimeUntilNextScrape(lastScrapeTime, k, clock) = 0
          /\ getTimeUntilNextScrape(lastScrapeTime, k, clock) \in 0..intervalMs
    /\ (lastCall.fn = "POST" /\ lastCall.pc = "done" /\ lastCall.status = 429)
          => lastCall.waitTimeMs > 0

-----------------------------------------------------------------------------
(* startSnapshotScheduler and stopSnapshotScheduler called in any order      *)
(* (part_004:8-32)                                                           *)

\* clearInterval(schedulerInterval)
ClearInterval(timers, t) ==
    IF t = None THEN timers ELSE [timers EXCEPT ![t].active = FALSE]

\* startSnapshotScheduler lines 11-16: up to the await of takeSnapshot
StartCall ==
    /\ Len(sched.timers) + sched.starting < MaxStarts
    /\ sched' = [sched EXCEPT
           !.timers = ClearInterval(sched.timers, sched.schedulerInterval),
           !.starting = sched.starting + 1]
    /\ UNCHANGED <<clock, tzOffset, database, sessionVars, chal, lastCall, eliteStatus,
                   lastScrapeTime, limiterCalls, storeVars, reqVars>>

\* startSnapshotScheduler lines 18-23: takeSnapshot returned and
\* schedulerInterval = setInterval(...)
StartResume ==
    /\ sched.starting > 0
    /\ sched' = [sched EXCEPT
           !.timers = Append(sched.timers, [active |-> TRUE, fired |-> 0]),
           !.schedulerInterval = Len(sched.timers) + 1,
           !.starting = sched.starting - 1,
           !.lastOp = "start"]
    /\ UNCHANGED <<clock, tzOffset, database, sessionVars, chal, lastCall, eliteStatus,
                   lastScrapeTime, limiterCalls, storeVars, reqVars>>

\* stopSnapshotScheduler lines 26-32
StopCall ==
    /\ sched' = [sched EXCEPT
           !.timers = ClearInterval(sched.timers, sched.schedulerInterval),
           !.schedulerInterval = None,
           !.lastOp = "stop"]
    /\ UNCHANGED <<clock, tzOffset, database, sessionVars, chal, lastCall, eliteStatus,
                   lastScrapeTime, limiterCalls, storeVars, reqVars>>

\* the callback of an active timer, lines 19-21
IntervalFires(t) ==
    /\ t \in DOMAIN sched.timers
    /\ sched.timers[t].active
    /\ sched.timers[t].fired < MaxSchedulerRuns
    /\ sched' = [sched EXCEPT !.timers[t].fired = sched.timers[t].fired + 1]
    /\ UNCHANGED <<clock, tzOffset, database, sessionVars, chal, lastCall, eliteStatus,
                   lastScrapeTime, limiterCalls, storeVars, reqVars>>

NextStartStop ==
    \/ StartCall
    \/ StartResume
    \/ StopCall
    \/ \E t \in 1..MaxStarts : IntervalFires(t)

SpecStartStop == InitSession /\ [][NextStartStop]_vars

ActiveTimers == {t \in DOMAIN sched.timers : sched.timers[t].active}

\* C36: at most one interval timer is active, and none is active once
\* stopSnapshotScheduler completed last with no start in progress.
C36_AtMostOneTimer ==
    /\ Cardinality(ActiveTimers) <= 1
    /\ (sched.lastOp = "stop" /\ sched.starting = 0) => ActiveTimers = {}

-----------------------------------------------------------------------------
(* The engine over an itinerary of two segments (db-utils.ts:253-332,       *)
(* db.ts:142-221)                                                           *)

\* the segments parseFlightSegments reads from the page of a flight number
\* that stops on the way: the second segment leaves from another airport at
\* a later time of the day
ItinerarySegments(flightNumber) ==
    <<[PageSegment(flightNumber) EXCEPT !.departureTime = <<13, 46>>],
      [PageSegment(flightNumber) EXCEPT !.origin = "PDX"]>>

FirstLegLists == {<<"ABC/J">>, <<"ABC/J", "XYZ/K">>}

SecondLegLists == {<<"DEF/L">>, <<"XYZ/K", "DEF/L">>}

\* the save loop of trackWaitlist (part_006:216-231) over the two segments:
\* saveFlightSegment, then saveWaitlistSnapshot with the id it returned
RECURSIVE SaveItinerarySegments(_, _, _, _, _)
SaveItinerarySegments(st, segments, lists, i, now) ==
    IF i > Len(segments) THEN st
    ELSE SaveItinerarySegments(
             [flights |-> saveFlightSegment(st.flights, st.nextFlightId,
                                            segments[i], i - 1),
              snapshots |-> saveWaitlistSnapshot(st.snapshots, st.nextSnapshotId,
                                                 st.nextFlightId, lists[i], now),
              nextFlightId |-> st.nextFlightId + 1,
              nextSnapshotId |-> st.nextSnapshotId + 1],
             segments, lists, i + 1, now)

SaveItinerary(flightNumber, first, second) ==
    LET st == SaveItinerarySegments(
                  [flights |-> flights, snapshots |-> snapshots,
                   nextFlightId |-> nextFlightId, nextSnapshotId |-> nextSnapshotId],
                  ItinerarySegments(flightNumber), <<first, second>>, 1, clock)
    IN  /\ isDbAvailable
        /\ nextFlightId <= MaxSaves
        /\ flights' = st.flights
        /\ snapshots' = st.snapshots
        /\ nextFlightId' = st.nextFlightId
        /\ nextSnapshotId' = st.nextSnapshotId
        /\ lastCall' = [fn |-> "trackWaitlist", threw |-> FALSE, at |-> clock]
        /\ UNCHANGED <<clock, tzOffset, database, sessionVars, sched, chal, lastScrapeTime,
                       limiterCalls, isDbAvailable, reqVars, eliteStatus>>

\* a run of trackEliteStatus over one of the result sets its query may return
TrackItineraries ==
    \E result \in QueryFlights(flights, clock, 1) :
        LET run == trackEliteStatusOver(result, isDbAvailable, flights, snapshots,
                                        eliteStatus, clock, tzOffset)
        IN  /\ eliteStatus' = run.elite
            /\ lastCall' = [fn |-> "trackEliteStatus", threw |-> run.threw,
                            at |-> clock, before |-> eliteStatus]
            /\ UNCHANGED <<clock, tzOffset, database, sessionVars, sched, chal, lastScrapeTime,
                           limiterCalls, storeVars, reqVars>>

NextSegments ==
    \/ EngineTick
    \/ InitDb
    \/ \E n \in FlightNumbers, first \in FirstLegLists, second \in SecondLegLists :
          SaveItinerary(n, first, second)
    \/ TrackItineraries

SpecSegments == InitSession /\ [][NextSegments]_vars

\* the passengers of the latest snapshot of a flights row
SegmentNames(f) ==
    LET w == LatestSnapshotOf(snapshots, f.id)
    IN  IF w.waitlist_names = JSONNull THEN << >> ELSE JSONParse(w.waitlist_names)

\* C38: after a run of trackEliteStatus that completed, every segment of a
\* flight in the window has been processed with its own data: each passenger
\* of the latest snapshot of segment i (and of no other segment of the
\* flight) has the elite_status row with the tier computed from the origin
\* and the departure time of segment i.
C38_SegmentOwnData ==
    (/\ lastCall.fn = "trackEliteStatus"
     /\ ~lastCall.threw
     /\ lastCall.at = clock
     /\ isDbAvailable) =>
        \A f \in flights :
            InWindow(f.flight_date, clock) =>
                \A k \in 1..Len(SegmentNames(f)) :
                    (\A g \in flights :
                        (g.flight_number = f.flight_number /\ g.flight_date = f.flight_date
                         /\ g.id # f.id)
                            => ~Includes(SegmentNames(g), SegmentNames(f)[k]))
                    => StatusRow(SegmentNames(f)[k],
                                 determineEliteStatus(
                                     calculateHoursBeforeDeparture(
                                         f.departure_time, f.flight_date, f.origin,
                                         clock, tzOffset)),
                                 f.flight_number, f.flight_date) \in eliteStatus

-----------------------------------------------------------------------------
(* resetDatabase (db-utils.ts:35-52) over the Database singleton            *)
(* (db.ts:47-84, 142-221)                                                   *)

\* Database.initDb: a call that finds initPromise set returns that promise;
\* otherwise the new promise resolves at once when the database is available
\* and open, and else opens the file (creating it) and creates the tables
initDb(d, avail) ==
    IF d.initPromise # "null" THEN d
    ELSE IF avail /\ d.db # "null" THEN [d EXCEPT !.initPromise = "resolved"]
    ELSE [d EXCEPT !.db = "open", !.initPromise = "resolved", !.file = TRUE]

\* resetDatabase after the initDb of the module load has resolved.
\* db.db.close() rejects on a connection that is already closed, and then
\* the function throws before it touches the file; otherwise the connection
\* is closed (db.db keeps the closed handle, isDbAvailable stays true), the
\* file is deleted with its tables, and initDb is awaited.
ResetDatabase ==
    /\ database.initPromise = "resolved"
    /\ IF database.db = "closed"
       THEN /\ lastCall' = [fn |-> "resetDatabase", threw |-> TRUE, at |-> clock]
            /\ UNCHANGED <<database, flights, snapshots, nextFlightId, nextSnapshotId,
                           eliteStatus>>
       ELSE LET closed == IF database.db = "null" THEN database
                          ELSE [database EXCEPT !.db = "closed"]
                unlinked == [closed EXCEPT !.file = FALSE]
                reinitialized == initDb(unlinked, isDbAvailable)
            IN  /\ database' = [reinitialized EXCEPT !.resets = @ + 1]
                /\ flights' = IF closed.file THEN {} ELSE flights
                /\ snapshots' = IF closed.file THEN {} ELSE snapshots
                /\ eliteStatus' = IF closed.file THEN {} ELSE eliteStatus
                /\ nextFlightId' = IF closed.file THEN 1 ELSE nextFlightId
                /\ nextSnapshotId' = IF closed.file THEN 1 ELSE nextSnapshotId
                /\ lastCall' = [fn |-> "resetDatabase", threw |-> FALSE, at |-> clock]
    /\ UNCHANGED <<clock, tzOffset, sessionVars, sched, chal, lastScrapeTime,
                   limiterCalls, isDbAvailable, reqVars>>

\* Database.saveFlightSegment on the connection db.db: null without a
\* database; on a closed connection db.run rejects and the catch block
\* returns null
DbSaveFlightSegment(n, segmentIndex) ==
    /\ nextFlightId <= MaxSaves
    /\ IF ~isDbAvailable \/ database.db = "null"
       THEN /\ lastCall' = [fn |-> "saveFlightSegment", result |-> None,
                            failed |-> FALSE, at |-> clock]
            /\ UNCHANGED <<flights, nextFlightId>>
       ELSE IF database.db = "closed"
       THEN /\ lastCall' = [fn |-> "saveFlightSegment", result |-> None,
                            failed |-> TRUE, at |-> clock]
            /\ UNCHANGED <<flights, nextFlightId>>
       ELSE /\ flights' = saveFlightSegment(flights, nextFlightId, PageSegment(n),
                                            segmentIndex)
            /\ nextFlightId' = nextFlightId + 1
            /\ lastCall' = [fn |-> "saveFlightSegment", result |-> nextFlightId,
                            failed |-> FALSE, at |-> clock]
    /\ UNCHANGED <<clock, tzOffset, database, sessionVars, sched, chal, lastScrapeTime,
                   limiterCalls, isDbAvailable, snapshots, nextSnapshotId, reqVars,
                   eliteStatus>>

\* Database.getLatestWaitlistData on the connection db.db: [] without a
\* database; on a closed connection db.all rejects and the catch block
\* returns []
DbGetLatestWaitlistData(n) ==
    /\ lastCall' =
          IF ~isDbAvailable \/ database.db = "null"
          THEN [fn |-> "getLatestWaitlistData", result |-> 0, failed |-> FALSE,
                at |-> clock]
          ELSE IF database.db = "closed"
          THEN [fn |-> "getLatestWaitlistData", result |-> 0, failed |-> TRUE,
                at |-> clock]
          ELSE [fn |-> "getLatestWaitlistData",
                result |-> Len(getLatestWaitlistData(TRUE, flights, snapshots, n,
                                                     FlightDate)),
                failed |-> FALSE, at |-> clock]
    /\ UNCHANGED <<clock, tzOffset, database, sessionVars, sched, chal, lastScrapeTime,
                   limiterCalls, storeVars, reqVars, eliteStatus>>

NextReset ==
    \/ EngineTick
    \/ InitDb
    \/ ResetDatabase
    \/ \E n \in FlightNumbers, segmentIndex \in 0..(MaxSegments - 1) :
          DbSaveFlightSegment(n, segmentIndex)
    \/ \E n \in FlightNumbers : DbGetLatestWaitlistData(n)

SpecReset == InitSession /\ [][NextReset]_vars

\* C40: once a call of resetDatabase has completed after a successful
\* initDb, db.db is an open connection to the database file, which exists,
\* and the calls of saveFlightSegment and getLatestWaitlistData that follow
\* run their statement on it without an error.
C40_UsableAfterReset ==
    database.resets > 0 =>
        /\ database.db = "open"
        /\ database.file
        /\ (lastCall.fn \in {"saveFlightSegment", "getLatestWaitlistData"}
               => ~lastCall.failed)

====
